---- MODULE Spec2Model ----
(***************************************************************************)
(* Model of the fusion_kit messaging core: the Redis-backed MessageQueue   *)
(* (messaging/message_queue.py) together with the channel naming functions *)
(* of ChannelManager (messaging/channels.py).                              *)
(*                                                                         *)
(* Strings are sequences of one-character strings so that formatting       *)
(* (f-strings) and glob matching are computed character by character.      *)
(* Python values and JSON texts are distinct tagged records, so that       *)
(* json.dumps / json.loads are real conversions.                           *)
(***************************************************************************)
EXTENDS Integers, Sequences, FiniteSets, TLC

\* ------------------------------------------------------------------ bounds
\* Number of messages the transport accepts for publication in a run.
MaxPublishes == 2

\* The subscription generators a run may create.
SessionIds == {1, 2}

\* ------------------------------------------------------------- identifiers
\* str(UUID) has a fixed length and an alphabet of hex digits and '-': the
\* ids below have one length and share a prefix, and hold no ':' and no '*'.
AgentX == <<"a", "1">>
AgentY == <<"a", "2">>
AgentIds == {AgentX, AgentY}

\* ------------------------------------------------------ ChannelManager
get_agent_task_channel(agent_id) ==
    <<"a","g","e","n","t",":">> \o agent_id \o <<":","t","a","s","k","s">>

get_agent_status_channel(agent_id) ==
    <<"a","g","e","n","t",":">> \o agent_id \o <<":","s","t","a","t","u","s">>

get_agent_heartbeat_channel(agent_id) ==
    <<"a","g","e","n","t",":">> \o agent_id \o <<":","h","e","a","r","t","b","e","a","t">>

\* The mutated pattern drops the id segment ("agent:*").
get_agent_pattern_NoId(agent_id) ==
    <<"a","g","e","n","t",":","*">>

get_agent_pattern(agent_id) ==
    <<"a","g","e","n","t",":">> \o agent_id \o <<":","*">>

\* Topics published to and subscribed to in the model.
Topics ==
    {get_agent_task_channel(AgentX), get_agent_status_channel(AgentX),
     get_agent_heartbeat_channel(AgentX), get_agent_task_channel(AgentY)}

Patterns == {get_agent_pattern(a) : a \in AgentIds}

\* ------------------------------------------------------------ transport
\* Glob matching of a PSUBSCRIBE pattern against a channel name: '*' matches
\* any run of characters (':' included), '?' one character, anything else
\* itself.
RECURSIVE GlobMatch(_, _)
GlobMatch(p, s) ==
    IF p = <<>> THEN s = <<>>
    ELSE IF Head(p) = "*"
         THEN \/ GlobMatch(Tail(p), s)
              \/ (s # <<>> /\ GlobMatch(p, Tail(s)))
    ELSE IF s = <<>> THEN FALSE
    ELSE IF Head(p) = "?" \/ Head(p) = Head(s)
         THEN GlobMatch(Tail(p), Tail(s))
    ELSE FALSE

\* ------------------------------------------------------- Python values
\* A message is a one-entry dict {key: val}.  Keys and values carry their
\* Python type: "str", "list", "tuple" or "UUID".
PyStr(s) == [ty |-> "str", v |-> s]
PyDict(k, x) == [ty |-> "dict", key |-> k, val |-> x]

\* {"agent_state": "idle"}
HeartbeatEnv == PyDict(PyStr("agent_state"), PyStr("idle"))
\* {"deps": ("t1",)}: a tuple value
TupleEnv == PyDict(PyStr("deps"), [ty |-> "tuple", v |-> "t1"])
\* {"task_id": UUID(...)}: a value json cannot serialise
UuidEnv == PyDict(PyStr("task_id"), [ty |-> "UUID", v |-> "u1"])

Envelopes == {HeartbeatEnv, TupleEnv, UuidEnv}

\* Envelopes made of JSON-native values only (string keys; strings and lists).
JsonNative(m) == m.key.ty = "str" /\ m.val.ty \in {"str", "list"}

\* ---------------------------------------------------------- JSON texts
\* A JSON text is an object {"key": val} whose val is a string or an array,
\* or a text that is not JSON.
Garbage == [j |-> "garbage"]

\* json.dumps: a string key stays a string, list and tuple both become
\* arrays, a UUID raises TypeError.
dumps_raises(m) == m.val.ty = "UUID"

\* Mutation: str(message) in place of json.dumps(message): a Python repr,
\* which is not JSON.
dumps_Repr(m) == Garbage

dumps(m) ==
    [j |-> "object", key |-> m.key.v,
     val |-> [j |-> IF m.val.ty = "str" THEN "string" ELSE "array", v |-> m.val.v]]

\* json.loads: raises JSONDecodeError on a text that is not JSON.
loads_raises(t) == t.j = "garbage"

loads(t) ==
    PyDict(PyStr(t.key),
           [ty |-> IF t.val.j = "string" THEN "str" ELSE "list", v |-> t.val.v])

\* Raw texts another client of the transport may publish.
ForeignTexts == {Garbage}

\* ------------------------------------------------------------------ state
VARIABLES
    redis_url,      \* MessageQueue.redis_url: "valid" or "invalid" (fixed at construction)
    redis_client,   \* MessageQueue.redis_client: "None", "open", or "closed" (close() was called on it)
    pubsub,         \* MessageQueue.pubsub: "None" (no code assigns it)
    lastConnect,    \* history: outcome of the latest connect() call: "never", "failed" or "ok"
    last,           \* the broker call that completed last: operation, outcome, transport calls made,
                    \* value returned, and whether the transport failed during the call
    sessions,       \* the subscription generators and their transport sessions, each with
                    \* the calls its finally block has made
    pubLog,         \* history: the messages the transport accepted, in order, each with the reply
                    \* and the sessions subscribed at that moment
    store,          \* the transport's key/value store: key -> NoValue or a text with its expiry time
    now,            \* the transport's clock, in seconds
    subscriptions,  \* ChannelSubscriptionManager.subscriptions: the dict, as its entries
                    \* (channel, subscriber list) in insertion order
    regLast,        \* the registry call that completed last, with the value it returned
    regCalls,       \* the registry calls in progress in concurrent callers: for each caller
                    \* its position in the method, its arguments and what it has read
    applied,        \* history: the two latest applications of a pure function (channel
                    \* naming, message factory), each with its arguments and its result
    delivery_status, \* Message.delivery_status of each message record: "none" before the
                    \* record is created
    held,           \* a list that a caller got from get_subscribers and keeps: whether it
                    \* is the list object the registry holds for the channel, and its
                    \* elements when it is an object of its own
    active_connections, \* ConnectionManager.active_connections
    wsLast,         \* the ConnectionManager call that completed last and how it ended
    endpoints,      \* for each websocket, where its websocket_endpoint call is
    providers,      \* ProviderRegistry._providers
    configs,        \* ProviderRegistry._configs
    provLast        \* the ProviderRegistry call that completed last and what it returned

vars ==
    <<redis_url, redis_client, pubsub, lastConnect, last, sessions, pubLog, store, now,
      subscriptions, regLast, regCalls, applied, delivery_status, held,
      active_connections, wsLast, endpoints, providers, configs, provLast>>

connVars == <<redis_url, redis_client, pubsub, lastConnect>>

\* The state of the MessageQueue and of its transport.
brokerVars == <<connVars, last, sessions, pubLog, store, now>>

\* The state of the ChannelSubscriptionManager and of its callers.
registryVars == <<subscriptions, regLast, regCalls>>

\* The state of the ConnectionManager.
wsVars == <<active_connections, wsLast, endpoints>>

\* The state of the ProviderRegistry.
provVars == <<providers, configs, provLast>>

\* Everything but the broker.
nonBrokerVars == <<registryVars, applied, delivery_status, held, wsVars, provVars>>

\* Everything but the registry and the lists it has handed out.
nonListVars == <<brokerVars, applied, delivery_status, wsVars, provVars>>

\* Everything but the registry.
nonRegistryVars == <<nonListVars, held>>

\* Everything but the pure-function history.
nonAppliedVars == <<brokerVars, registryVars, delivery_status, held, wsVars, provVars>>

\* Everything but the message record.
nonRecordVars == <<brokerVars, registryVars, applied, held, wsVars, provVars>>

\* Everything but the ConnectionManager.
nonWsVars == <<brokerVars, registryVars, applied, delivery_status, held, provVars>>

\* Everything but the ProviderRegistry.
nonProvVars == <<brokerVars, registryVars, applied, delivery_status, held, wsVars>>

\* A generator that does not exist yet.
NoSession ==
    [pc |-> "new", kind |-> "none", target |-> <<>>, subscribed |-> FALSE,
     connOpen |-> FALSE, inbox |-> <<>>, cursor |-> 0, received |-> <<>>,
     calls |-> <<>>]

NoCall == [op |-> "none", res |-> "none", sends |-> 0, ret |-> 0, fault |-> FALSE]

\* The keys of the TTL store.  The key is spelled like a topic: keys and topics
\* are names in two separate namespaces of the transport.
Keys == {get_agent_task_channel(AgentX)}

\* The local callers of the registry, and a caller that is in no call.
Callers == {"p1", "p2"}
Idle == [pc |-> "idle", op |-> "none", sid |-> "none", ch |-> <<>>, n |-> 0]

NoApplication == [fn |-> "none"]

\* The websockets of the model.
Connections == {"w1", "w2", "w3"}

\* No list is kept.
NoList == [set |-> FALSE, alias |-> FALSE, ch |-> <<>>, own |-> <<>>]

\* The message records.
MessageIds == {"m1", "m2", "m3"}

NoValue == [set |-> FALSE]
\* Largest clock value of a run.
MaxTime == 2
TTLs == {0, 1, 2}

Init ==
    /\ redis_url \in {"valid", "invalid"}
    /\ redis_client = "None"
    /\ pubsub = "None"
    /\ lastConnect = "never"
    /\ last = NoCall
    /\ sessions = [s \in SessionIds |-> NoSession]
    /\ pubLog = <<>>
    /\ store = [k \in Keys |-> NoValue]
    /\ now = 0
    /\ subscriptions = <<>>
    /\ regLast = [op |-> "none", ret |-> 0, internal |-> FALSE]
    /\ regCalls = [p \in Callers |-> Idle]
    /\ applied = <<NoApplication, NoApplication>>
    /\ delivery_status = [m \in MessageIds |-> "none"]
    /\ held = NoList
    /\ active_connections = <<>>
    /\ wsLast = [op |-> "none", res |-> "none"]
    /\ endpoints = [w \in Connections |-> "new"]
    /\ providers = [id \in {} |-> "none"]
    /\ configs = [id \in {} |-> "none"]
    /\ provLast = [op |-> "none", res |-> "none", ret |-> FALSE]

\* Truth value of self.redis_client in "if not self.redis_client".
ClientTruthy == redis_client # "None"

NotConnectedCall(op) ==
    [op |-> op, res |-> "NotConnected", sends |-> 0, ret |-> 0, fault |-> FALSE]

\* -------------------------------------------------- connect / disconnect
\* connect(): from_url raises on an invalid URL before the attribute is
\* assigned; otherwise the client is assigned and then pinged.
Connect ==
    \/ /\ redis_url = "invalid"
       /\ redis_client' = redis_client
       /\ lastConnect' = "failed"
       /\ last' = [op |-> "connect", res |-> "TransportError", sends |-> 0, ret |-> 0,
                   fault |-> TRUE]
       /\ UNCHANGED <<nonBrokerVars, redis_url, pubsub, sessions, pubLog, store, now>>
    \/ /\ redis_url = "valid"
       /\ redis_client' = "open"
       /\ \E pingOk \in BOOLEAN :
             /\ lastConnect' = IF pingOk THEN "ok" ELSE "failed"
             /\ last' = [op |-> "connect",
                         res |-> IF pingOk THEN "ok" ELSE "TransportError",
                         sends |-> 1, ret |-> 0, fault |-> ~pingOk]
       /\ UNCHANGED <<nonBrokerVars, redis_url, pubsub, sessions, pubLog, store, now>>

\* Mutation: the second close() of the client raises.
Disconnect_CloseOnce ==
    /\ pubsub' = pubsub
    /\ redis_client' = IF ClientTruthy THEN "closed" ELSE redis_client
    /\ last' = [op |-> "disconnect",
                res |-> IF redis_client = "closed" THEN "TransportError" ELSE "ok",
                sends |-> IF ClientTruthy THEN 1 ELSE 0, ret |-> 0, fault |-> FALSE]
    /\ UNCHANGED <<nonBrokerVars, redis_url, lastConnect, sessions, pubLog, store, now>>

\* disconnect(): closes self.pubsub and self.redis_client when they are set;
\* neither attribute is reset.
Disconnect ==
    /\ pubsub' = pubsub
    /\ redis_client' = IF ClientTruthy THEN "closed" ELSE redis_client
    /\ last' = [op |-> "disconnect", res |-> "ok",
                sends |-> IF ClientTruthy THEN 1 ELSE 0, ret |-> 0, fault |-> FALSE]
    /\ UNCHANGED <<nonBrokerVars, redis_url, lastConnect, sessions, pubLog, store, now>>

\* ------------------------------------------------------ transport: pub/sub
\* Whether a session's subscription covers a topic: SUBSCRIBE by equality,
\* PSUBSCRIBE by glob match.
Matches(sess, topic) ==
    IF sess.kind = "subscribe" THEN sess.target = topic
    ELSE sess.kind = "psubscribe" /\ GlobMatch(sess.target, topic)

ExactReceivers(topic) ==
    {s \in SessionIds : sessions[s].subscribed /\ sessions[s].kind = "subscribe"
                          /\ Matches(sessions[s], topic)}

PatternReceivers(topic) ==
    {s \in SessionIds : sessions[s].subscribed /\ sessions[s].kind = "psubscribe"
                          /\ Matches(sessions[s], topic)}

\* Mutation: every generator whose target covers the topic receives, whether
\* or not its session is subscribed yet.
Receivers_Queued(topic) ==
    {s \in SessionIds : sessions[s].pc # "done" /\ Matches(sessions[s], topic)}

\* Mutation: one delivery path shared by all sessions: nothing is delivered
\* while a subscribed session has a message unread.
Receivers_HeadOfLine(topic) ==
    IF \E s \in SessionIds :
          sessions[s].subscribed /\ sessions[s].cursor < Len(sessions[s].inbox)
    THEN {}
    ELSE ExactReceivers(topic) \cup PatternReceivers(topic)

\* Mutation: the transport delivers only on topics the registry has a key for.
Receivers_Registered(topic) ==
    IF \E n \in 1..Len(subscriptions) : subscriptions[n].channel = topic
    THEN ExactReceivers(topic) \cup PatternReceivers(topic)
    ELSE {}

\* The sessions PUBLISH delivers to.
Receivers(topic) == ExactReceivers(topic) \cup PatternReceivers(topic)

\* Mutation: the reply counts exact subscriptions only.
PublishReply_ExactOnly(topic) == Cardinality(ExactReceivers(topic))

\* The integer reply of PUBLISH: the number of clients that received the message.
PublishReply(topic) == Cardinality(Receivers(topic))

\* The message a session's listen() produces for a published text.
WireMessage(sess, id, topic, text) ==
    [type |-> IF sess.kind = "subscribe" THEN "message" ELSE "pmessage",
     channel |-> topic, data |-> text, id |-> id]

\* The transport accepts a text for a topic: it is appended to the connection
\* of every receiving session and logged.
ServerPublish(topic, text, src, env) ==
    LET id == Len(pubLog) + 1 IN
    /\ Len(pubLog) < MaxPublishes
    /\ sessions' = [s \in SessionIds |->
                      IF s \in Receivers(topic)
                      THEN [sessions[s] EXCEPT
                              !.inbox = Append(@, WireMessage(sessions[s], id, topic, text))]
                      ELSE sessions[s]]
    /\ pubLog' = Append(pubLog,
                        [src |-> src, topic |-> topic, env |-> env,
                         ret |-> PublishReply(topic),
                         subs |-> {s \in SessionIds : sessions[s].subscribed}])

\* Another client of the transport publishes a raw text.
ForeignPublish(topic, text) ==
    /\ ServerPublish(topic, text, "foreign", text)
    /\ UNCHANGED <<connVars, nonBrokerVars, last, store, now>>

\* ------------------------------------------------------------- publish
\* Mutation: publish without the connection guard.
Publish_NoGuard(topic, message) ==
    /\ ~dumps_raises(message)
    /\ ServerPublish(topic, dumps(message), "publish", message)
    /\ last' = [op |-> "publish", res |-> "ok", sends |-> 1, ret |-> PublishReply(topic),
                   fault |-> FALSE]
    /\ UNCHANGED <<connVars, nonBrokerVars, store, now>>

\* Mutation: a send that fails is repeated once, and the repeat succeeds.
Publish_Retry(topic, message) ==
    \/ /\ ~ClientTruthy
       /\ last' = NotConnectedCall("publish")
       /\ UNCHANGED <<connVars, nonBrokerVars, sessions, pubLog, store, now>>
    \/ /\ ClientTruthy
       /\ dumps_raises(message)
       /\ last' = [op |-> "publish", res |-> "TypeError", sends |-> 0, ret |-> 0, fault |-> FALSE]
       /\ UNCHANGED <<connVars, nonBrokerVars, sessions, pubLog, store, now>>
    \/ /\ ClientTruthy
       /\ ~dumps_raises(message)
       /\ ServerPublish(topic, dumps(message), "publish", message)
       /\ \E failed \in BOOLEAN :
             last' = [op |-> "publish", res |-> "ok", sends |-> IF failed THEN 2 ELSE 1,
                      ret |-> PublishReply(topic), fault |-> failed]
       /\ UNCHANGED <<connVars, nonBrokerVars, store, now>>

Publish(topic, message) ==
    \/ /\ ~ClientTruthy
       /\ last' = NotConnectedCall("publish")
       /\ UNCHANGED <<connVars, nonBrokerVars, sessions, pubLog, store, now>>
    \/ /\ ClientTruthy
       /\ dumps_raises(message)
       /\ last' = [op |-> "publish", res |-> "TypeError", sends |-> 0, ret |-> 0, fault |-> FALSE]
       /\ UNCHANGED <<connVars, nonBrokerVars, sessions, pubLog, store, now>>
    \/ /\ ClientTruthy
       /\ ~dumps_raises(message)
       /\ last' = [op |-> "publish", res |-> "TransportError", sends |-> 1, ret |-> 0, fault |-> TRUE]
       /\ UNCHANGED <<connVars, nonBrokerVars, sessions, pubLog, store, now>>
    \/ /\ ClientTruthy
       /\ ~dumps_raises(message)
       /\ ServerPublish(topic, dumps(message), "publish", message)
       /\ last' = [op |-> "publish", res |-> "ok", sends |-> 1, ret |-> PublishReply(topic),
                   fault |-> FALSE]
       /\ UNCHANGED <<connVars, nonBrokerVars, store, now>>

\* ---------------------------------------------------- key/value store
\* A key holds a value that has not expired.
Live(key) == store[key].set /\ now < store[key].expires

PyNone == [ty |-> "None"]

\* Mutation: a successful write is also delivered to the subscribers of the
\* topic spelled like the key.
SetMessageExpiry_Notify(key, value, ttl_seconds) ==
    /\ UNCHANGED <<connVars, nonBrokerVars, pubLog, now>>
    /\ IF ClientTruthy /\ ~dumps_raises(value) /\ ttl_seconds > 0
       THEN /\ last' = [op |-> "set_message_expiry", res |-> "ok", sends |-> 1, ret |-> 0,
                        fault |-> FALSE]
            /\ store' = [store EXCEPT ![key] =
                           [set |-> TRUE, value |-> value, text |-> dumps(value),
                            expires |-> now + ttl_seconds]]
            /\ sessions' = [s \in SessionIds |->
                              IF s \in Receivers(key)
                              THEN [sessions[s] EXCEPT
                                      !.inbox = Append(@, WireMessage(sessions[s],
                                                          Len(pubLog) + 1, key, dumps(value)))]
                              ELSE sessions[s]]
       ELSE /\ last' = NotConnectedCall("set_message_expiry")
            /\ store' = store
            /\ sessions' = sessions

SetMessageExpiry(key, value, ttl_seconds) ==
    /\ UNCHANGED <<connVars, nonBrokerVars, sessions, pubLog, now>>
    /\ \/ /\ ~ClientTruthy
          /\ last' = NotConnectedCall("set_message_expiry")
          /\ store' = store
       \/ /\ ClientTruthy
          /\ dumps_raises(value)
          /\ last' = [op |-> "set_message_expiry", res |-> "TypeError", sends |-> 0, ret |-> 0,
                      fault |-> FALSE]
          /\ store' = store
       \/ /\ ClientTruthy
          /\ ~dumps_raises(value)
          /\ last' = [op |-> "set_message_expiry", res |-> "TransportError", sends |-> 1, ret |-> 0,
                      fault |-> TRUE]
          /\ store' = store
       \/ /\ ClientTruthy
          /\ ~dumps_raises(value)
          /\ IF ttl_seconds <= 0
             THEN \* SETEX rejects an expire time that is not positive
                  /\ last' = [op |-> "set_message_expiry", res |-> "ResponseError", sends |-> 1,
                               ret |-> 0, fault |-> FALSE]
                  /\ store' = store
             ELSE /\ last' = [op |-> "set_message_expiry", res |-> "ok", sends |-> 1, ret |-> 0,
                               fault |-> FALSE]
                  /\ store' = [store EXCEPT ![key] =
                                 [set |-> TRUE, value |-> value, text |-> dumps(value),
                                  expires |-> now + ttl_seconds]]

\* get_message(): a transport error and a decode error both return None.
GetMessage(key) ==
    /\ UNCHANGED <<connVars, nonBrokerVars, sessions, pubLog, store, now>>
    /\ \/ /\ ~ClientTruthy
          /\ last' = NotConnectedCall("get_message")
       \/ /\ ClientTruthy
          /\ last' = [op |-> "get_message", res |-> "ok", sends |-> 1, ret |-> PyNone,
                      fault |-> TRUE]
       \/ /\ ClientTruthy
          /\ last' = [op |-> "get_message", res |-> "ok", sends |-> 1,
                      ret |-> IF Live(key) /\ ~loads_raises(store[key].text)
                              THEN loads(store[key].text) ELSE PyNone,
                      fault |-> FALSE]

\* delete_message(): a transport error returns False.
DeleteMessage(key) ==
    /\ UNCHANGED <<connVars, nonBrokerVars, sessions, pubLog, now>>
    /\ \/ /\ ~ClientTruthy
          /\ last' = NotConnectedCall("delete_message")
          /\ store' = store
       \/ /\ ClientTruthy
          /\ last' = [op |-> "delete_message", res |-> "ok", sends |-> 1, ret |-> FALSE,
                      fault |-> TRUE]
          /\ store' = store
       \/ /\ ClientTruthy
          /\ last' = [op |-> "delete_message", res |-> "ok", sends |-> 1, ret |-> Live(key),
                      fault |-> FALSE]
          /\ store' = [store EXCEPT ![key] = NoValue]

\* The transport's clock advances by one second.
Tick ==
    /\ now < MaxTime
    /\ now' = now + 1
    /\ UNCHANGED <<connVars, nonBrokerVars, last, sessions, pubLog, store>>

\* ------------------------------------------------------- introspection
\* Channels with at least one exact subscription (PUBSUB CHANNELS).
ActiveChannels ==
    {sessions[s].target : s \in {x \in SessionIds :
                                    sessions[x].subscribed /\ sessions[x].kind = "subscribe"}}

\* list_channels(): a transport error returns [].
ListChannels ==
    /\ UNCHANGED <<connVars, nonBrokerVars, sessions, pubLog, store, now>>
    /\ \/ /\ ~ClientTruthy
          /\ last' = NotConnectedCall("list_channels")
       \/ /\ ClientTruthy
          /\ \E fault \in BOOLEAN :
                last' = [op |-> "list_channels", res |-> "ok", sends |-> 1,
                         ret |-> IF fault THEN {} ELSE ActiveChannels, fault |-> fault]

\* get_channel_subscribers(): any error returns 0.
GetChannelSubscribers(channel) ==
    /\ UNCHANGED <<connVars, nonBrokerVars, sessions, pubLog, store, now>>
    /\ \/ /\ ~ClientTruthy
          /\ last' = NotConnectedCall("get_channel_subscribers")
       \/ /\ ClientTruthy
          /\ \E fault \in BOOLEAN :
                last' = [op |-> "get_channel_subscribers", res |-> "ok", sends |-> 1,
                         ret |-> IF fault THEN 0 ELSE Cardinality(ExactReceivers(channel)),
                         fault |-> fault]

\* ------------------------------------------------- subscribe / psubscribe
\* Calling subscribe(topic) or psubscribe(pattern) returns an async generator
\* object; none of its body runs before the consumer asks for the first item.
Create(s, kind, target) ==
    /\ sessions[s].pc = "new"
    /\ sessions' = [sessions EXCEPT ![s] = [@ EXCEPT !.pc = "created", !.kind = kind,
                                                     !.target = target]]
    /\ UNCHANGED <<connVars, nonBrokerVars, last, pubLog, store, now>>

\* The confirmation the transport sends first on a new subscription.
Confirmation(sess) ==
    [type |-> sess.kind, channel |-> sess.target, data |-> [j |-> "int"], id |-> 0]

\* The finally block: unsubscribe (or punsubscribe), then close.  When the
\* unsubscribe raises, the close is not reached.
Cleanup(sess, unsubOk) ==
    IF unsubOk
    THEN [sess EXCEPT !.pc = "done", !.subscribed = FALSE, !.connOpen = FALSE,
                      !.calls = @ \o <<"unsubscribe", "close">>]
    ELSE [sess EXCEPT !.pc = "done", !.calls = Append(@, "unsubscribe")]

\* Mutation: both loops keep type "message".
WantedType_MessageOnly(sess) == "message"

\* The message type the loop of a generator keeps.
WantedType(sess) == IF sess.kind = "subscribe" THEN "message" ELSE "pmessage"

\* What the generator yields for a decoded message.
\* Mutation: psubscribe yields the pattern in place of the message's channel.
Item_PatternAsTopic(sess, msg) ==
    IF sess.kind = "subscribe"
    THEN [id |-> msg.id, data |-> loads(msg.data)]
    ELSE [id |-> msg.id, channel |-> sess.target, data |-> loads(msg.data)]

Item(sess, msg) ==
    IF sess.kind = "subscribe"
    THEN [id |-> msg.id, data |-> loads(msg.data)]
    ELSE [id |-> msg.id, channel |-> msg.channel, data |-> loads(msg.data)]

\* Mutation: a text that does not decode ends the generator.
ListenStep_DecodeFatal(sess) ==
    LET msg == sess.inbox[sess.cursor + 1] IN
    IF msg.type # WantedType(sess)
    THEN [sess EXCEPT !.cursor = @ + 1]
    ELSE IF loads_raises(msg.data)
    THEN Cleanup([sess EXCEPT !.cursor = @ + 1], TRUE)
    ELSE [sess EXCEPT !.cursor = @ + 1, !.pc = "yielded",
                      !.received = Append(@, Item(sess, msg))]

\* Mutation: a yielded message stays at the head of the connection.
ListenStep_Redeliver(sess) ==
    LET msg == sess.inbox[sess.cursor + 1] IN
    IF msg.type # WantedType(sess)
    THEN [sess EXCEPT !.cursor = @ + 1]
    ELSE IF loads_raises(msg.data)
    THEN [sess EXCEPT !.cursor = @ + 1]
    ELSE [sess EXCEPT !.pc = "yielded", !.received = Append(@, Item(sess, msg))]

\* One iteration of "async for message in pubsub.listen()": a message of
\* another type is passed over, a text that does not decode is logged and
\* passed over, a decoded message is yielded.
ListenStep(sess) ==
    LET msg == sess.inbox[sess.cursor + 1] IN
    IF msg.type # WantedType(sess)
    THEN [sess EXCEPT !.cursor = @ + 1]
    ELSE IF loads_raises(msg.data)
    THEN [sess EXCEPT !.cursor = @ + 1]
    ELSE [sess EXCEPT !.cursor = @ + 1, !.pc = "yielded",
                      !.received = Append(@, Item(sess, msg))]

\* The consumer asks for the first item: the body runs up to the listen loop
\* and through its first iteration, which reads the confirmation.
Start(s) ==
    /\ sessions[s].pc = "created"
    /\ UNCHANGED <<connVars, nonBrokerVars, pubLog, store, now>>
    /\ \/ /\ ~ClientTruthy
          /\ sessions' = [sessions EXCEPT ![s] = [@ EXCEPT !.pc = "done"]]
          /\ last' = NotConnectedCall(sessions[s].kind)
       \/ /\ ClientTruthy
          /\ sessions' = [sessions EXCEPT ![s] =
                            ListenStep([@ EXCEPT !.pc = "listening", !.subscribed = TRUE,
                                                 !.connOpen = TRUE,
                                                 !.inbox = <<Confirmation(sessions[s])>>])]
          /\ last' = [op |-> sessions[s].kind, res |-> "ok", sends |-> 1, ret |-> 0,
                      fault |-> FALSE]
       \/ /\ ClientTruthy
          /\ sessions' = [sessions EXCEPT ![s] = Cleanup(@, TRUE)]
          /\ last' = [op |-> sessions[s].kind, res |-> "TransportError", sends |-> 1, ret |-> 0,
                      fault |-> TRUE]

Listen(s) ==
    /\ sessions[s].pc = "listening"
    /\ sessions[s].cursor < Len(sessions[s].inbox)
    /\ sessions' = [sessions EXCEPT ![s] = ListenStep(@)]
    /\ UNCHANGED <<connVars, nonBrokerVars, last, pubLog, store, now>>

\* Mutation: a stream that has ended can be resumed.
Resume_AfterEnd(s) ==
    /\ sessions[s].pc \in {"yielded", "done"}
    /\ sessions' = [sessions EXCEPT ![s] = [@ EXCEPT !.pc = "listening"]]
    /\ UNCHANGED <<connVars, nonBrokerVars, last, pubLog, store, now>>

\* The consumer asks for the next item.
Resume(s) ==
    /\ sessions[s].pc = "yielded"
    /\ sessions' = [sessions EXCEPT ![s] = [@ EXCEPT !.pc = "listening"]]
    /\ UNCHANGED <<connVars, nonBrokerVars, last, pubLog, store, now>>

\* ------------------------------------------------------------ exit paths
\* The consumer closes the generator (aclose) while it holds an item: the
\* finally block runs inside the call.  Closing a generator that never started
\* runs none of its body.
Aclose(s) ==
    /\ UNCHANGED <<connVars, nonBrokerVars, last, pubLog, store, now>>
    /\ \/ /\ sessions[s].pc = "created"
          /\ sessions' = [sessions EXCEPT ![s] = [@ EXCEPT !.pc = "done"]]
       \/ /\ sessions[s].pc = "yielded"
          /\ \E unsubOk \in BOOLEAN :
                sessions' = [sessions EXCEPT ![s] = Cleanup(@, unsubOk)]

\* The consuming task is cancelled while it waits for the next item: the
\* cancellation is raised inside listen() and the finally block runs.
Cancel(s) ==
    /\ sessions[s].pc = "listening"
    /\ \E unsubOk \in BOOLEAN :
          sessions' = [sessions EXCEPT ![s] = Cleanup(@, unsubOk)]
    /\ UNCHANGED <<connVars, nonBrokerVars, last, pubLog, store, now>>

\* The transport connection of a listening session is lost: listen() raises,
\* the transport has dropped the subscription, and the finally block runs.
ListenError(s) ==
    /\ sessions[s].pc = "listening"
    /\ \E unsubOk \in BOOLEAN :
          sessions' = [sessions EXCEPT ![s] =
                         Cleanup([@ EXCEPT !.subscribed = FALSE], unsubOk)]
    /\ UNCHANGED <<connVars, nonBrokerVars, last, pubLog, store, now>>

\* The consumer stops iterating while it holds an item (break, an exception in
\* the loop body): control leaves the loop and no code of the generator runs.
Abandon(s) ==
    /\ sessions[s].pc = "yielded"
    /\ sessions' = [sessions EXCEPT ![s] = [@ EXCEPT !.pc = "abandoned"]]
    /\ UNCHANGED <<connVars, nonBrokerVars, last, pubLog, store, now>>

\* The event loop finalises an abandoned generator later, in a task of its own.
Finalize(s) ==
    /\ sessions[s].pc = "abandoned"
    /\ \E unsubOk \in BOOLEAN :
          sessions' = [sessions EXCEPT ![s] = Cleanup(@, unsubOk)]
    /\ UNCHANGED <<connVars, nonBrokerVars, last, pubLog, store, now>>

\* ------------------------------------------------------- specifications
\* The steps of the subscription generators in S, created on the targets Tg.
SessionNext(S, Tg) ==
    \E s \in S :
        \/ \E t \in Tg : Create(s, t.kind, t.target)
        \/ Start(s)
        \/ Listen(s)
        \/ Resume(s)
        \/ Aclose(s)
        \/ Cancel(s)
        \/ ListenError(s)
        \/ Abandon(s)
        \/ Finalize(s)

Exact(topic) == [kind |-> "subscribe", target |-> topic]
Pattern(pattern) == [kind |-> "psubscribe", target |-> pattern]

\* Fan-out: two generators, one by exact topic and one by pattern, and
\* publishes to a topic both cover and to a topic neither covers.
FanTopics == {get_agent_task_channel(AgentX), get_agent_task_channel(AgentY)}

Next ==
    \/ Connect
    \/ Disconnect
    \/ \E t \in FanTopics, m \in {HeartbeatEnv, UuidEnv} : Publish(t, m)
    \/ SessionNext({1}, {Exact(get_agent_task_channel(AgentX))})
    \/ SessionNext({2}, {Pattern(get_agent_pattern(AgentX))})

Spec == Init /\ [][Next]_vars

\* One consumer and the codec: well-formed envelopes of several shapes and
\* undecodable texts published to one topic.
CodecTopics == {get_agent_task_channel(AgentX)}
CodecTargets == {Exact(get_agent_task_channel(AgentX)), Pattern(get_agent_pattern(AgentX))}

NextCodec ==
    \/ Connect
    \/ Disconnect
    \/ \E t \in CodecTopics, m \in Envelopes : Publish(t, m)
    \/ \E t \in CodecTopics, x \in ForeignTexts : ForeignPublish(t, x)
    \/ SessionNext({1}, CodecTargets)

SpecCodec == Init /\ [][NextCodec]_vars

\* One consumer subscribed by agent pattern, and publishes to every topic.
NextPattern ==
    \/ Connect
    \/ Disconnect
    \/ \E t \in Topics, m \in {HeartbeatEnv, UuidEnv} : Publish(t, m)
    \/ SessionNext({1}, {Pattern(p) : p \in Patterns})

SpecPattern == Init /\ [][NextPattern]_vars

\* The connection state machine and every data operation.
NextConn ==
    \/ Connect
    \/ Disconnect
    \/ \E m \in {HeartbeatEnv, UuidEnv} : Publish(get_agent_task_channel(AgentX), m)
    \/ \E k \in Keys, m \in {HeartbeatEnv, UuidEnv}, ttl \in TTLs : SetMessageExpiry(k, m, ttl)
    \/ \E k \in Keys : GetMessage(k)
    \/ \E k \in Keys : DeleteMessage(k)
    \/ Tick
    \/ ListChannels
    \/ GetChannelSubscribers(get_agent_task_channel(AgentX))
    \/ SessionNext({1}, CodecTargets)

SpecConn == Init /\ [][NextConn]_vars

\* ------------------------------------------- ChannelSubscriptionManager
SubscriberIds == {"s1", "s2", "s3"}
RegChannels == {get_agent_task_channel(AgentX), get_agent_status_channel(AgentX)}

\* x in list
Contains(list, x) == \E n \in 1..Len(list) : list[n] = x

\* Mutation: the removed element's place is taken by the last element.
Remove_SwapLast(list, x) ==
    LET n == CHOOSE k \in 1..Len(list) :
                 list[k] = x /\ \A j \in 1..(k - 1) : list[j] # x
    IN  IF n = Len(list) THEN SubSeq(list, 1, n - 1)
        ELSE [SubSeq(list, 1, Len(list) - 1) EXCEPT ![n] = list[Len(list)]]

\* list.remove(x): the first occurrence of x is taken out.
Remove(list, x) ==
    LET n == CHOOSE k \in 1..Len(list) :
                 list[k] = x /\ \A j \in 1..(k - 1) : list[j] # x
    IN  SubSeq(list, 1, n - 1) \o SubSeq(list, n + 1, Len(list))

\* channel in self.subscriptions
HasChannel(channel) ==
    \E n \in 1..Len(subscriptions) : subscriptions[n].channel = channel

\* The position of a channel's entry in the dict.
EntryOf(channel) ==
    CHOOSE n \in 1..Len(subscriptions) : subscriptions[n].channel = channel

\* self.subscriptions.get(channel, [])
SubscribersOf(channel) ==
    IF HasChannel(channel) THEN subscriptions[EntryOf(channel)].subscribers ELSE <<>>

RegReturn(op, ret, internal) == [op |-> op, ret |-> ret, internal |-> internal]

\* The kept list after the registry's dict became subs: a list object whose
\* key was deleted (which happens when it is empty) is no longer the dict's.
Detached(subs) ==
    IF held.set /\ held.alias /\ ~(\E n \in 1..Len(subs) : subs[n].channel = held.ch)
    THEN [held EXCEPT !.alias = FALSE, !.own = <<>>]
    ELSE held

\* Mutation: subscribe appends without looking for the id in the list.
subscribe_Append(subscriber_id, channel) ==
    /\ Len(SubscribersOf(channel)) < Cardinality(SubscriberIds) + 1
    /\ subscriptions' =
          IF HasChannel(channel)
          THEN [subscriptions EXCEPT ![EntryOf(channel)].subscribers = Append(@, subscriber_id)]
          ELSE Append(subscriptions, [channel |-> channel, subscribers |-> <<subscriber_id>>])
    /\ regLast' = RegReturn("subscribe", 0, FALSE)
    /\ UNCHANGED <<nonRegistryVars, regCalls>>

subscribe(subscriber_id, channel) ==
    LET withKey ==
            IF HasChannel(channel) THEN subscriptions
            ELSE Append(subscriptions, [channel |-> channel, subscribers |-> <<>>])
        n == CHOOSE k \in 1..Len(withKey) : withKey[k].channel = channel
    IN  /\ subscriptions' =
              IF Contains(withKey[n].subscribers, subscriber_id) THEN withKey
              ELSE [withKey EXCEPT ![n].subscribers = Append(@, subscriber_id)]
        /\ regLast' = RegReturn("subscribe", 0, FALSE)
        /\ UNCHANGED <<nonRegistryVars, regCalls>>

\* Mutation: unsubscribe leaves the key of a list that became empty.
unsubscribe_KeepKey(subscriber_id, channel) ==
    /\ subscriptions' =
          IF HasChannel(channel) /\ Contains(SubscribersOf(channel), subscriber_id)
          THEN [subscriptions EXCEPT ![EntryOf(channel)].subscribers = Remove(@, subscriber_id)]
          ELSE subscriptions
    /\ regLast' = RegReturn("unsubscribe", 0, FALSE)
    /\ UNCHANGED <<nonRegistryVars, regCalls>>

unsubscribe(subscriber_id, channel) ==
    /\ subscriptions' =
          IF HasChannel(channel) /\ Contains(SubscribersOf(channel), subscriber_id)
          THEN LET n == EntryOf(channel)
                   rest == Remove(subscriptions[n].subscribers, subscriber_id)
               IN  IF rest = <<>>
                   THEN SubSeq(subscriptions, 1, n - 1)
                            \o SubSeq(subscriptions, n + 1, Len(subscriptions))
                   ELSE [subscriptions EXCEPT ![n].subscribers = rest]
          ELSE subscriptions
    /\ regLast' = RegReturn("unsubscribe", 0, FALSE)
    /\ held' = Detached(subscriptions')
    /\ UNCHANGED <<nonListVars, regCalls>>

\* get_subscribers(): the dict's own list when the channel has an entry, a
\* new empty list otherwise.
get_subscribers(channel) ==
    /\ regLast' = RegReturn("get_subscribers", SubscribersOf(channel), HasChannel(channel))
    /\ UNCHANGED <<nonRegistryVars, regCalls, subscriptions>>

\* Mutation: get_subscriptions stops at the first channel that holds the id.
get_subscriptions_FirstOnly(subscriber_id) ==
    LET hit(e) == Contains(e.subscribers, subscriber_id)
        hits == SelectSeq(subscriptions, hit)
    IN  /\ regLast' = RegReturn("get_subscriptions",
                                [n \in 1..(IF hits = <<>> THEN 0 ELSE 1) |-> hits[n].channel],
                                FALSE)
        /\ UNCHANGED <<nonRegistryVars, regCalls, subscriptions>>

get_subscriptions(subscriber_id) ==
    LET hit(e) == Contains(e.subscribers, subscriber_id)
        hits == SelectSeq(subscriptions, hit)
    IN  /\ regLast' = RegReturn("get_subscriptions",
                                [n \in 1..Len(hits) |-> hits[n].channel], FALSE)
        /\ UNCHANGED <<nonRegistryVars, regCalls, subscriptions>>

is_subscribed(subscriber_id, channel) ==
    /\ regLast' = RegReturn("is_subscribed",
                            Contains(SubscribersOf(channel), subscriber_id), FALSE)
    /\ UNCHANGED <<nonRegistryVars, regCalls, subscriptions>>

\* Mutation: every channel that held the id is deleted, whoever else is in it.
clear_subscriber_DropChannels(subscriber_id) ==
    LET kept(e) == ~Contains(e.subscribers, subscriber_id)
    IN  /\ subscriptions' = SelectSeq(subscriptions, kept)
        /\ regLast' = RegReturn("clear_subscriber", 0, FALSE)
        /\ UNCHANGED <<nonRegistryVars, regCalls>>

\* clear_subscriber(): first loop removes the id from every list that holds
\* it and notes the channels whose list became empty; second loop deletes them.
clear_subscriber(subscriber_id) ==
    LET removed == [n \in 1..Len(subscriptions) |->
                      IF Contains(subscriptions[n].subscribers, subscriber_id)
                      THEN [subscriptions[n] EXCEPT
                              !.subscribers = Remove(@, subscriber_id)]
                      ELSE subscriptions[n]]
        channels_to_clean ==
            {subscriptions[n].channel : n \in
                {k \in 1..Len(subscriptions) :
                    /\ Contains(subscriptions[k].subscribers, subscriber_id)
                    /\ removed[k].subscribers = <<>>}}
        kept(e) == e.channel \notin channels_to_clean
    IN  /\ subscriptions' = SelectSeq(removed, kept)
        /\ regLast' = RegReturn("clear_subscriber", 0, FALSE)
        /\ held' = Detached(subscriptions')
        /\ UNCHANGED <<nonListVars, regCalls>>

\* ------------------------------ the registry's methods, statement by statement
\* Callers that run in threads of their own are switched between the
\* statements of a method; no statement of the class takes a lock.
\* Largest number of calls one caller makes.
MaxCalls == 2

\* A caller enters subscribe() or unsubscribe().
RegCall(p, op, subscriber_id, channel) ==
    /\ regCalls[p].pc \in {"idle", "done", "failed"}
    /\ regCalls[p].n < MaxCalls
    /\ regCalls' = [regCalls EXCEPT ![p] =
                      [pc |-> IF op = "subscribe" THEN "L111" ELSE "L124",
                       op |-> op, sid |-> subscriber_id, ch |-> channel,
                       n |-> regCalls[p].n + 1]]
    /\ UNCHANGED <<nonRegistryVars, subscriptions, regLast>>

\* subscribe, line 111: if channel not in self.subscriptions
SubscribeTestKey(p) ==
    /\ regCalls[p].pc = "L111"
    /\ regCalls' = [regCalls EXCEPT ![p].pc =
                      IF HasChannel(regCalls[p].ch) THEN "L113" ELSE "L112"]
    /\ UNCHANGED <<nonRegistryVars, subscriptions, regLast>>

\* subscribe, line 112: self.subscriptions[channel] = []
SubscribeNewList(p) ==
    /\ regCalls[p].pc = "L112"
    /\ subscriptions' =
          IF HasChannel(regCalls[p].ch)
          THEN [subscriptions EXCEPT ![EntryOf(regCalls[p].ch)].subscribers = <<>>]
          ELSE Append(subscriptions, [channel |-> regCalls[p].ch, subscribers |-> <<>>])
    /\ regCalls' = [regCalls EXCEPT ![p].pc = "L113"]
    /\ UNCHANGED <<nonRegistryVars, regLast>>

\* subscribe, line 113: if subscriber_id not in self.subscriptions[channel];
\* the lookup raises KeyError when the key is gone.
SubscribeTestMember(p) ==
    /\ regCalls[p].pc = "L113"
    /\ regCalls' = [regCalls EXCEPT ![p].pc =
                      IF ~HasChannel(regCalls[p].ch) THEN "failed"
                      ELSE IF Contains(SubscribersOf(regCalls[p].ch), regCalls[p].sid)
                      THEN "done" ELSE "L114"]
    /\ UNCHANGED <<nonRegistryVars, subscriptions, regLast>>

\* subscribe, line 114: self.subscriptions[channel].append(subscriber_id)
SubscribeAppend(p) ==
    /\ regCalls[p].pc = "L114"
    /\ IF HasChannel(regCalls[p].ch)
       THEN /\ subscriptions' = [subscriptions EXCEPT
                                   ![EntryOf(regCalls[p].ch)].subscribers =
                                       Append(@, regCalls[p].sid)]
            /\ regCalls' = [regCalls EXCEPT ![p].pc = "done"]
       ELSE /\ subscriptions' = subscriptions
            /\ regCalls' = [regCalls EXCEPT ![p].pc = "failed"]
    /\ UNCHANGED <<nonRegistryVars, regLast>>

\* unsubscribe, line 124: if channel in self.subscriptions and subscriber_id in
\* self.subscriptions[channel]
UnsubscribeTest(p) ==
    /\ regCalls[p].pc = "L124"
    /\ regCalls' = [regCalls EXCEPT ![p].pc =
                      IF Contains(SubscribersOf(regCalls[p].ch), regCalls[p].sid)
                      THEN "L125" ELSE "done"]
    /\ UNCHANGED <<nonRegistryVars, subscriptions, regLast>>

\* unsubscribe, line 125: self.subscriptions[channel].remove(subscriber_id);
\* KeyError when the key is gone, ValueError when the id is gone.
UnsubscribeRemove(p) ==
    /\ regCalls[p].pc = "L125"
    /\ IF Contains(SubscribersOf(regCalls[p].ch), regCalls[p].sid)
       THEN /\ subscriptions' = [subscriptions EXCEPT
                                   ![EntryOf(regCalls[p].ch)].subscribers =
                                       Remove(@, regCalls[p].sid)]
            /\ regCalls' = [regCalls EXCEPT ![p].pc = "L126"]
       ELSE /\ subscriptions' = subscriptions
            /\ regCalls' = [regCalls EXCEPT ![p].pc = "failed"]
    /\ UNCHANGED <<nonRegistryVars, regLast>>

\* unsubscribe, lines 126-127: if not self.subscriptions[channel]: del ...
UnsubscribePrune(p) ==
    /\ regCalls[p].pc = "L126"
    /\ IF ~HasChannel(regCalls[p].ch)
       THEN /\ subscriptions' = subscriptions
            /\ regCalls' = [regCalls EXCEPT ![p].pc = "failed"]
       ELSE LET n == EntryOf(regCalls[p].ch) IN
            /\ subscriptions' =
                  IF subscriptions[n].subscribers = <<>>
                  THEN SubSeq(subscriptions, 1, n - 1)
                           \o SubSeq(subscriptions, n + 1, Len(subscriptions))
                  ELSE subscriptions
            /\ regCalls' = [regCalls EXCEPT ![p].pc = "done"]
    /\ UNCHANGED <<nonRegistryVars, regLast>>

NextRace ==
    \E p \in Callers :
        \/ \E op \in {"subscribe", "unsubscribe"}, s \in {"s1", "s2"} :
              RegCall(p, op, s, get_agent_task_channel(AgentX))
        \/ SubscribeTestKey(p)
        \/ SubscribeNewList(p)
        \/ SubscribeTestMember(p)
        \/ SubscribeAppend(p)
        \/ UnsubscribeTest(p)
        \/ UnsubscribeRemove(p)
        \/ UnsubscribePrune(p)

SpecRace == Init /\ [][NextRace]_vars

\* ------------------------------------------------- ChannelManager: naming
get_workflow_channel(workflow_id) ==
    <<"w", "o", "r", "k", "f", "l", "o", "w", ":">> \o workflow_id
        \o <<":", "u", "p", "d", "a", "t", "e", "s">>

get_project_channel(project_id) ==
    <<"p", "r", "o", "j", "e", "c", "t", ":">> \o project_id
        \o <<":", "e", "v", "e", "n", "t", "s">>

get_result_channel(task_id) == <<"r", "e", "s", "u", "l", "t", "s", ":">> \o task_id

get_broadcast_channel ==
    <<"b", "r", "o", "a", "d", "c", "a", "s", "t", ":", "s", "y", "s", "t", "e", "m">>

get_coordination_channel ==
    <<"c", "o", "o", "r", "d", "i", "n", "a", "t", "i", "o", "n", ":",
      "r", "e", "q", "u", "e", "s", "t", "s">>

\* The ids handed to the naming functions: two well-formed ids and raw ids
\* that hold a separator, a suffix or the second segment of a fixed name.
RawIds ==
    {AgentX, AgentY, <<"s", "y", "s", "t", "e", "m">>,
     <<"a", "1", ":", "t", "a", "s", "k", "s">>,
     <<"a", "1", ":", "s", "t", "a", "t", "u", "s">>}

NamingFunctions ==
    {"get_agent_task_channel", "get_agent_status_channel", "get_agent_heartbeat_channel",
     "get_workflow_channel", "get_project_channel", "get_result_channel"}

\* Mutation: the status channel is named like the task channel.
ChannelOf_StatusAsTasks(fn, id) ==
    CASE fn = "get_agent_task_channel" -> get_agent_task_channel(id)
      [] fn = "get_agent_status_channel" -> get_agent_task_channel(id)
      [] fn = "get_agent_heartbeat_channel" -> get_agent_heartbeat_channel(id)
      [] fn = "get_workflow_channel" -> get_workflow_channel(id)
      [] fn = "get_project_channel" -> get_project_channel(id)
      [] fn = "get_result_channel" -> get_result_channel(id)

\* The topic a naming function of ChannelManager returns for an id.
ChannelOf(fn, id) ==
    CASE fn = "get_agent_task_channel" -> get_agent_task_channel(id)
      [] fn = "get_agent_status_channel" -> get_agent_status_channel(id)
      [] fn = "get_agent_heartbeat_channel" -> get_agent_heartbeat_channel(id)
      [] fn = "get_workflow_channel" -> get_workflow_channel(id)
      [] fn = "get_project_channel" -> get_project_channel(id)
      [] fn = "get_result_channel" -> get_result_channel(id)

\* A naming function is applied to an id.
ApplyNaming(fn, id) ==
    /\ applied' = <<applied[2], [fn |-> fn, arg |-> id, out |-> ChannelOf(fn, id)]>>
    /\ UNCHANGED nonAppliedVars

NextNaming == \E fn \in NamingFunctions, id \in RawIds : ApplyNaming(fn, id)

SpecNaming == Init /\ [][NextNaming]_vars

\* ------------------------------------------------------------- TopicRouter
RouterFunctions ==
    {"route_task_assignment", "route_status_update", "route_workflow_update",
     "route_result_delivery", "route_coordination_request", "route_system_event"}

\* The topic a routing function of TopicRouter returns.  route_task_assignment
\* takes a task id as well and does not use it; route_system_event takes no id.
RouteOf(fn, id) ==
    CASE fn = "route_task_assignment" -> get_agent_task_channel(id)
      [] fn = "route_status_update" -> get_agent_status_channel(id)
      [] fn = "route_workflow_update" -> get_workflow_channel(id)
      [] fn = "route_result_delivery" -> get_result_channel(id)
      [] fn = "route_coordination_request" -> get_project_channel(id)
      [] fn = "route_system_event" -> get_broadcast_channel

\* A routing function is applied to an id.
ApplyRoute(fn, id) ==
    /\ applied' = <<applied[2], [fn |-> fn, arg |-> id, out |-> RouteOf(fn, id)]>>
    /\ UNCHANGED nonAppliedVars

NextRouter == \E fn \in RouterFunctions, id \in RawIds : ApplyRoute(fn, id)

SpecRouter == Init /\ [][NextRouter]_vars

\* --------------------------------------------------------- message factory
\* The values of the MessageType enum.
MessageType ==
    {"task_assignment", "status_update", "collaboration_request", "heartbeat",
     "error_report", "result_delivery", "capability_query", "capability_response",
     "workflow_directive", "custom"}

\* UUID objects, and str(id) of a UUID object.
Uuid(s) == [ty |-> "UUID", v |-> s]
Str(id) == [ty |-> "str", v |-> id.v]

\* A Python list of values, and None.
List(s) == [ty |-> "list", v |-> s]

\* [str(id) for id in (recipient_agent_ids or [])]: None and the empty list
\* are both falsy.
RecipientStrings(recipient_agent_ids) ==
    IF recipient_agent_ids = PyNone \/ recipient_agent_ids.v = <<>>
    THEN List(<<>>)
    ELSE List([n \in 1..Len(recipient_agent_ids.v) |-> Str(recipient_agent_ids.v[n])])

\* {**a, **b}: the entries of b replace those of a with the same key.
DictMerge(a, b) ==
    [k \in DOMAIN a \cup DOMAIN b |-> IF k \in DOMAIN b THEN b[k] ELSE a[k]]

ValidationError == [raised |-> "ValidationError"]

\* Mutation: the payload is built without validating the type.
create_message_Unvalidated(message_type, sender_agent_id, content, recipient_agent_ids) ==
    [message_type |-> message_type,
     content |-> DictMerge([k \in {"sender_agent_id", "recipients"} |->
                               IF k = "sender_agent_id" THEN Str(sender_agent_id)
                               ELSE RecipientStrings(recipient_agent_ids)],
                           content),
     metadata |-> <<>>]

\* create_message(): MessagePayload validates message_type against the enum;
\* the content is the sender and the recipients overlaid with the caller's
\* map; metadata or {} is the empty dict.
create_message(message_type, sender_agent_id, content, recipient_agent_ids) ==
    IF message_type \notin MessageType THEN ValidationError
    ELSE [message_type |-> message_type,
          content |-> DictMerge([k \in {"sender_agent_id", "recipients"} |->
                                    IF k = "sender_agent_id" THEN Str(sender_agent_id)
                                    ELSE RecipientStrings(recipient_agent_ids)],
                                content),
          metadata |-> <<>>]

\* The content maps the factory is applied to: one without and two with a
\* key the factory itself sets.
FactoryContents ==
    {[k \in {"agent_state"} |-> PyStr("idle")],
     [k \in {"agent_state", "sender_agent_id"} |->
         IF k = "agent_state" THEN PyStr("idle") ELSE PyStr("a2")],
     [k \in {"agent_state", "recipients"} |->
         IF k = "agent_state" THEN PyStr("idle") ELSE List(<<PyStr("a1")>>)]}
ApplyFactory(message_type, sender_agent_id, content, recipient_agent_ids) ==
    /\ applied' =
          <<applied[2],
            [fn |-> "create_message",
             arg |-> [message_type |-> message_type, sender_agent_id |-> sender_agent_id,
                      content |-> content, recipient_agent_ids |-> recipient_agent_ids],
             out |-> create_message(message_type, sender_agent_id, content,
                                    recipient_agent_ids)]>>
    /\ UNCHANGED nonAppliedVars

NextFactory ==
    \E t \in MessageType \cup {"unknown_type"}, c \in FactoryContents,
       r \in {PyNone, List(<<>>), List(<<Uuid("a2")>>)} :
        ApplyFactory(t, Uuid("a1"), c, r)

SpecFactory == Init /\ [][NextFactory]_vars

\* --------------------------------------------------------- message records
\* The values of the DeliveryStatus enum.
DeliveryStatus == {"pending", "delivered", "failed", "expired"}

\* A message record is created: delivery_status is the given value, or
\* "pending" when none is given.
MessageCreate(m, given) ==
    /\ delivery_status[m] = "none"
    /\ delivery_status' =
          [delivery_status EXCEPT ![m] = IF given = "default" THEN "pending" ELSE given]
    /\ UNCHANGED nonRecordVars

\* update(id, delivery_status=value): the attribute is set to the value.
MessageUpdate(m, value) ==
    /\ delivery_status[m] # "none"
    /\ delivery_status' = [delivery_status EXCEPT ![m] = value]
    /\ UNCHANGED nonRecordVars

NextRecord ==
    \E m \in MessageIds :
        \/ \E given \in DeliveryStatus \cup {"default"} : MessageCreate(m, given)
        \/ \E value \in DeliveryStatus : MessageUpdate(m, value)

SpecRecord == Init /\ [][NextRecord]_vars

\* One process that uses both: a broker with one stream on the task topic of
\* agent X, and a registry in which two subscribers are entered for and taken
\* off that same topic.
BrokerStep ==
    \/ Connect
    \/ Disconnect
    \/ \E m \in {HeartbeatEnv, UuidEnv} : Publish(get_agent_task_channel(AgentX), m)
    \/ SessionNext({1}, {Exact(get_agent_task_channel(AgentX))})

RegistryStep ==
    \E s \in {"s1", "s2"} :
        \/ subscribe(s, get_agent_task_channel(AgentX))
        \/ unsubscribe(s, get_agent_task_channel(AgentX))
        \/ clear_subscriber(s)

NextBoth == BrokerStep \/ RegistryStep

SpecBoth == Init /\ [][NextBoth]_vars

\* ------------------------------------------- a caller that keeps a returned list
\* The elements of the kept list.
HeldList == IF held.alias THEN SubscribersOf(held.ch) ELSE held.own

\* lst = manager.get_subscribers(channel): the dict's own list object when the
\* channel has a key, otherwise a new empty list.
KeepList(channel) ==
    /\ regLast' = RegReturn("get_subscribers", SubscribersOf(channel), HasChannel(channel))
    /\ held' = [set |-> TRUE, alias |-> HasChannel(channel), ch |-> channel, own |-> <<>>]
    /\ UNCHANGED <<nonListVars, regCalls, subscriptions>>

\* lst.append(x) by the caller.
ListAppend(x) ==
    /\ held.set
    /\ Len(HeldList) < Cardinality(SubscriberIds)
    /\ IF held.alias
       THEN /\ subscriptions' =
                  [subscriptions EXCEPT ![EntryOf(held.ch)].subscribers = Append(@, x)]
            /\ held' = held
       ELSE /\ held' = [held EXCEPT !.own = Append(@, x)]
            /\ subscriptions' = subscriptions
    /\ UNCHANGED <<nonListVars, regLast, regCalls>>

\* lst.remove(x) by the caller, for an x that is in the list.
ListRemove(x) ==
    /\ held.set
    /\ Contains(HeldList, x)
    /\ IF held.alias
       THEN /\ subscriptions' =
                  [subscriptions EXCEPT ![EntryOf(held.ch)].subscribers = Remove(@, x)]
            /\ held' = held
       ELSE /\ held' = [held EXCEPT !.own = Remove(@, x)]
            /\ subscriptions' = subscriptions
    /\ UNCHANGED <<nonListVars, regLast, regCalls>>

\* The registry's writes on the task topic of agent X.
RegistryWrite ==
    \E s \in {"s1", "s2"} :
        \/ subscribe(s, get_agent_task_channel(AgentX))
        \/ unsubscribe(s, get_agent_task_channel(AgentX))
        \/ clear_subscriber(s)

\* What the caller does with the list.
ListStep == \E x \in {"s1", "s2"} : ListAppend(x) \/ ListRemove(x)

NextAlias ==
    \/ RegistryWrite
    \/ KeepList(get_agent_task_channel(AgentX))
    \/ ListStep

SpecAlias == Init /\ [][NextAlias]_vars

\* ------------------------------------------------------ MessageQueueContext
\* "async with MessageQueueContext(url) as mq: body", once.  __aenter__ is
\* connect() on the context's own MessageQueue; when it raises, neither the
\* body nor __aexit__ runs.
CtxEnter ==
    /\ lastConnect = "never"
    /\ Connect

\* The body runs between a successful __aenter__ and __aexit__.
InBody == lastConnect = "ok" /\ redis_client = "open"

\* A call the body makes on mq; it may raise.
CtxBody ==
    /\ InBody
    /\ \/ \E m \in {HeartbeatEnv, UuidEnv} : Publish(get_agent_task_channel(AgentX), m)
       \/ \E k \in Keys, m \in {HeartbeatEnv, UuidEnv}, ttl \in TTLs : SetMessageExpiry(k, m, ttl)
       \/ \E k \in Keys : GetMessage(k)
       \/ \E k \in Keys : DeleteMessage(k)
       \/ Tick

\* __aexit__: disconnect(), whether the body returned or raised.
CtxExit ==
    /\ InBody
    /\ Disconnect

NextCtx == CtxEnter \/ CtxBody \/ CtxExit

SpecCtx == Init /\ [][NextCtx]_vars

\* -------------------------------------------------------- ConnectionManager
WsReturn(op, res) == [op |-> op, res |-> res]

\* websocket_endpoint up to its loop: ws_manager.connect(websocket), which is
\* accept() and then append.  When accept() raises, the endpoint ends there.
WsConnect(websocket) ==
    /\ endpoints[websocket] = "new"
    /\ \E acceptOk \in BOOLEAN :
          IF acceptOk
          THEN /\ active_connections' = Append(active_connections, websocket)
               /\ wsLast' = WsReturn("connect", "ok")
               /\ endpoints' = [endpoints EXCEPT ![websocket] = "running"]
          ELSE /\ active_connections' = active_connections
               /\ wsLast' = WsReturn("connect", "TransportError")
               /\ endpoints' = [endpoints EXCEPT ![websocket] = "ended"]
    /\ UNCHANGED nonWsVars

\* "await self.disconnect(websocket)", as broadcast, send_to_client and the
\* websocket endpoint write it: disconnect() is a plain function that returns
\* None (list.remove raises ValueError for an absent element), and awaiting
\* None raises TypeError after the removal.
AwaitDisconnect(list, websocket) ==
    IF Contains(list, websocket)
    THEN [list |-> Remove(list, websocket), res |-> "TypeError"]
    ELSE [list |-> list, res |-> "ValueError"]

\* The loop of websocket_endpoint raises (the client went away) and its error
\* handler runs: await ws_manager.disconnect(websocket).
EndpointError(websocket) ==
    LET out == AwaitDisconnect(active_connections, websocket) IN
    /\ endpoints[websocket] = "running"
    /\ active_connections' = out.list
    /\ wsLast' = WsReturn("endpoint_error", out.res)
    /\ endpoints' = [endpoints EXCEPT ![websocket] = "ended"]
    /\ UNCHANGED nonWsVars

\* broadcast(): send to every connection, collecting those whose send raised
\* (failing is the set of websockets whose send raises); then the cleanup loop,
\* which ends in its first iteration when the await raises.
Broadcast(failing) ==
    LET failed(w) == w \in failing
        disconnected == SelectSeq(active_connections, failed)
    IN  /\ IF disconnected = <<>>
           THEN /\ active_connections' = active_connections
                /\ wsLast' = [op |-> "broadcast", res |-> "ok", failing |-> failing,
                              before |-> active_connections]
           ELSE LET out == AwaitDisconnect(active_connections, Head(disconnected)) IN
                /\ active_connections' = out.list
                /\ wsLast' = [op |-> "broadcast", res |-> out.res, failing |-> failing,
                              before |-> active_connections]
        /\ UNCHANGED <<nonWsVars, endpoints>>

\* send_to_client(): a failed send is followed by await self.disconnect(websocket).
SendToClient(websocket, sendOk) ==
    /\ IF sendOk
       THEN /\ active_connections' = active_connections
            /\ wsLast' = WsReturn("send_to_client", "ok")
       ELSE LET out == AwaitDisconnect(active_connections, websocket) IN
            /\ active_connections' = out.list
            /\ wsLast' = WsReturn("send_to_client", out.res)
    /\ UNCHANGED <<nonWsVars, endpoints>>

NextWs ==
    \/ \E w \in Connections : WsConnect(w)
    \/ \E w \in Connections : EndpointError(w)
    \/ \E F \in SUBSET Connections : Broadcast(F)
    \/ \E w \in Connections, sendOk \in BOOLEAN : SendToClient(w, sendOk)

SpecWs == Init /\ [][NextWs]_vars

\* --------------------------------------------------------- ProviderRegistry
ProviderIds == {"p1", "p2"}
\* Provider instances and the provider_type values of their configurations.
LLMProviders == {"providerA", "providerB"}
ProviderTypes == {"openrouter", "anthropic"}

\* d[key] = value
DictSet(d, key, value) == [k \in DOMAIN d \cup {key} |-> IF k = key THEN value ELSE d[k]]

\* del d[key]
DictDel(d, key) == [k \in DOMAIN d \ {key} |-> d[k]]

register_provider(provider_id, provider, config) ==
    /\ IF provider_id \in DOMAIN providers
       THEN /\ provLast' = [op |-> "register_provider", id |-> provider_id,
                            res |-> "ValueError", ret |-> FALSE]
            /\ UNCHANGED <<providers, configs>>
       ELSE /\ providers' = DictSet(providers, provider_id, provider)
            /\ configs' = DictSet(configs, provider_id, config)
            /\ provLast' = [op |-> "register_provider", id |-> provider_id,
                            res |-> "ok", ret |-> FALSE]
    /\ UNCHANGED nonProvVars

\* Mutation: unregister_provider leaves the configuration in its table.
unregister_provider_KeepConfig(provider_id) ==
    /\ providers' = DictDel(providers, provider_id)
    /\ configs' = configs
    /\ provLast' = [op |-> "unregister_provider", id |-> provider_id, res |-> "ok",
                    ret |-> provider_id \in DOMAIN providers]
    /\ UNCHANGED nonProvVars

unregister_provider(provider_id) ==
    /\ IF provider_id \in DOMAIN providers
       THEN /\ providers' = DictDel(providers, provider_id)
            /\ configs' = DictDel(configs, provider_id)
            /\ provLast' = [op |-> "unregister_provider", id |-> provider_id,
                            res |-> "ok", ret |-> TRUE]
       ELSE /\ UNCHANGED <<providers, configs>>
            /\ provLast' = [op |-> "unregister_provider", id |-> provider_id,
                            res |-> "ok", ret |-> FALSE]
    /\ UNCHANGED nonProvVars

has_provider(provider_id) ==
    /\ provLast' = [op |-> "has_provider", id |-> provider_id, res |-> "ok",
                    ret |-> provider_id \in DOMAIN providers]
    /\ UNCHANGED <<nonProvVars, providers, configs>>

\* list_providers_by_type(): reads self._configs[pid] for every key of
\* self._providers, which raises KeyError for a key the config table lacks.
list_providers_by_type(provider_type) ==
    /\ IF DOMAIN providers \subseteq DOMAIN configs
       THEN provLast' = [op |-> "list_providers_by_type", id |-> provider_type, res |-> "ok",
                         ret |-> {pid \in DOMAIN providers :
                                     configs[pid].provider_type = provider_type}]
       ELSE provLast' = [op |-> "list_providers_by_type", id |-> provider_type,
                         res |-> "KeyError", ret |-> {}]
    /\ UNCHANGED <<nonProvVars, providers, configs>>

NextProv ==
    \/ \E id \in ProviderIds, p \in LLMProviders, t \in ProviderTypes :
          register_provider(id, p, [provider_type |-> t])
    \/ \E id \in ProviderIds : unregister_provider(id)
    \/ \E id \in ProviderIds : has_provider(id)
    \/ \E t \in ProviderTypes : list_providers_by_type(t)

SpecProv == Init /\ [][NextProv]_vars

NextRegistry ==
    \/ \E s \in SubscriberIds, c \in RegChannels : subscribe(s, c)
    \/ \E s \in SubscriberIds, c \in RegChannels : unsubscribe(s, c)
    \/ \E c \in RegChannels : get_subscribers(c)
    \/ \E s \in SubscriberIds : get_subscriptions(s)
    \/ \E s \in SubscriberIds, c \in RegChannels : is_subscribed(s, c)
    \/ \E s \in SubscriberIds : clear_subscriber(s)

SpecRegistry == Init /\ [][NextRegistry]_vars

\* =================================================================== claims
DataOps ==
    {"publish", "subscribe", "psubscribe", "set_message_expiry", "get_message",
     "delete_message", "list_channels", "get_channel_subscribers"}

\* C1: while connect() has never been called, every call of publish,
\* set_message_expiry, get_message, delete_message, list_channels and
\* get_channel_subscribers ends with the not-connected error, the client
\* attribute stays unset, the call makes no transport call, and neither a
\* message nor a key has reached the transport.
C1_NeverConnectedFailsFast ==
    lastConnect = "never" =>
        /\ redis_client = "None"
        /\ last.sends = 0
        /\ last.op \in DataOps \ {"subscribe", "psubscribe"} => last.res = "NotConnected"
        /\ pubLog = <<>>
        /\ \A k \in Keys : ~store[k].set

C1_Witness ==
    /\ lastConnect = "never"
    /\ last.op = "get_channel_subscribers"
    /\ last.res = "NotConnected"

\* C2: after a successful connect() and a disconnect(), every data operation
\* ends with the not-connected error.
C2_DisconnectedAfterDisconnect ==
    (lastConnect = "ok" /\ redis_client = "closed" /\ last.op \in DataOps)
        => last.res = "NotConnected"

\* C3: after a connect() that failed, a data operation ends with the
\* not-connected error.
C3_FailedConnectLeavesDisconnected ==
    (lastConnect = "failed" /\ last.op \in DataOps) => last.res = "NotConnected"

\* ------------------------------------------------ reading the histories
PubIds == 1..Len(pubLog)

\* Message i was put on the connection of session s.
InInbox(s, i) == \E n \in 1..Len(sessions[s].inbox) : sessions[s].inbox[n].id = i

\* The generator of session s has read message i from its connection.
Consumed(s, i) == \E n \in 1..sessions[s].cursor : sessions[s].inbox[n].id = i

\* The items session s yielded for message i.
YieldedAt(s, i) == {n \in 1..Len(sessions[s].received) : sessions[s].received[n].id = i}

Yielded(s, i) == YieldedAt(s, i) # {}

\* The sessions that were subscribed to a matching topic or pattern when
\* message i was published.
LiveMatching(i) ==
    {s \in pubLog[i].subs : Matches(sessions[s], pubLog[i].topic)}

\* C4: a publish made while no session is subscribed to the topic, by exact
\* topic or by matching pattern, returns 0 and the message reaches no session,
\* also none that subscribes later.
C4_NoSubscribersNotQueued ==
    \A i \in PubIds :
        (pubLog[i].src = "publish" /\ LiveMatching(i) = {}) =>
            /\ pubLog[i].ret = 0
            /\ \A s \in SessionIds : ~InInbox(s, i) /\ ~Yielded(s, i)

\* A session that subscribed after a publish that returned 0 on a topic it
\* covers, and has since yielded a later message.
C4_Witness ==
    \E i \in PubIds, s \in SessionIds :
        /\ pubLog[i].src = "publish"
        /\ pubLog[i].ret = 0
        /\ s \notin pubLog[i].subs
        /\ sessions[s].subscribed
        /\ Matches(sessions[s], pubLog[i].topic)
        /\ sessions[s].pc = "yielded"

\* C5 as stated: publish returns the number of sessions subscribed to exactly
\* the topic; pattern subscriptions are not counted.
C5_ReplyCountsExactOnly ==
    \A i \in PubIds :
        pubLog[i].src = "publish" =>
            pubLog[i].ret = Cardinality({s \in LiveMatching(i) : sessions[s].kind = "subscribe"})

\* C5 amended: publish returns the number of sessions that receive the
\* message: those subscribed to exactly the topic plus those subscribed to a
\* pattern the topic matches.
C5_ReplyCountsReceivers ==
    \A i \in PubIds :
        pubLog[i].src = "publish" =>
            /\ pubLog[i].ret = Cardinality(LiveMatching(i))
            /\ LiveMatching(i) = {s \in SessionIds : InInbox(s, i)}

\* A publish that returned 2 with one exact and one pattern subscriber.
C5_Witness ==
    \E i \in PubIds :
        /\ pubLog[i].src = "publish"
        /\ pubLog[i].ret = 2
        /\ \E s, t \in LiveMatching(i) :
              sessions[s].kind = "subscribe" /\ sessions[t].kind = "psubscribe"

\* Fan-out to one topic with the scheduling the event loop gives: a
\* generator with a message waiting on its connection is eventually resumed,
\* and a consumer that keeps iterating eventually asks for the next item.
NextFair ==
    \/ Connect
    \/ \E m \in {HeartbeatEnv, UuidEnv} : Publish(get_agent_task_channel(AgentX), m)
    \/ SessionNext({1}, {Exact(get_agent_task_channel(AgentX))})
    \/ SessionNext({2}, {Pattern(get_agent_pattern(AgentX))})

FairSpec ==
    /\ Init /\ [][NextFair]_vars
    /\ \A s \in SessionIds : WF_vars(Listen(s)) /\ WF_vars(Resume(s))

\* C6: every session that is subscribed and covers the topic when a message
\* is published eventually yields that message, unless its stream has ended
\* (closed, cancelled, connection lost) or its consumer has stopped iterating.
C6_FanOut ==
    \A s \in SessionIds, i \in 1..MaxPublishes :
        (i \in PubIds /\ pubLog[i].src = "publish" /\ s \in LiveMatching(i))
            ~> (Yielded(s, i) \/ sessions[s].pc \in {"done", "abandoned"})

\* Both sessions have yielded one published message.
C6_Witness ==
    \E i \in PubIds :
        /\ pubLog[i].src = "publish"
        /\ LiveMatching(i) = SessionIds
        /\ \A s \in SessionIds : Yielded(s, i)

\* The published messages that session s has read, with the item yielded.
ItemsFor(s, i) == {sessions[s].received[n] : n \in YieldedAt(s, i)}

\* C7 as stated: every item a stream yields for a published envelope is equal
\* to that envelope.
C7_RoundTripIdentity ==
    \A i \in PubIds, s \in SessionIds :
        pubLog[i].src = "publish" =>
            \A item \in ItemsFor(s, i) : item.data = pubLog[i].env

\* C7 amended: with one consumer subscribed, publish returns 1 and, once the
\* generator has read the message, the stream has yielded exactly one item for
\* it, equal to json.loads(json.dumps(envelope)); that is the envelope itself
\* when the envelope holds JSON-native values only.
C7_RoundTripJson ==
    \A i \in PubIds, s \in SessionIds :
        (pubLog[i].src = "publish" /\ LiveMatching(i) = {s}) =>
            /\ pubLog[i].ret = 1
            /\ InInbox(s, i)
            /\ Consumed(s, i) =>
                  /\ Cardinality(YieldedAt(s, i)) = 1
                  /\ \A item \in ItemsFor(s, i) :
                        /\ item.data = loads(dumps(pubLog[i].env))
                        /\ JsonNative(pubLog[i].env) => item.data = pubLog[i].env

\* The consumer of an exact subscription holds the heartbeat envelope it was
\* sent, and the publish returned 1.
C7_Witness ==
    \E i \in PubIds, s \in SessionIds :
        /\ pubLog[i].src = "publish"
        /\ pubLog[i].env = HeartbeatEnv
        /\ pubLog[i].ret = 1
        /\ sessions[s].kind = "subscribe"
        /\ sessions[s].pc = "yielded"
        /\ ItemsFor(s, i) = {[id |-> i, data |-> HeartbeatEnv]}

\* The three channels of an agent.
AgentChannels(a) ==
    {get_agent_task_channel(a), get_agent_status_channel(a), get_agent_heartbeat_channel(a)}

\* C8: a session subscribed to the pattern of agent a when a message is
\* published receives it if the topic is one of the three channels of a, does
\* not receive it if the topic is the task channel of another agent, and what
\* it yields for the message carries the topic it was published to.
C8_AgentPattern ==
    \A i \in PubIds, s \in SessionIds, a \in AgentIds :
        (/\ pubLog[i].src = "publish"
         /\ s \in pubLog[i].subs
         /\ sessions[s].kind = "psubscribe"
         /\ sessions[s].target = get_agent_pattern(a)) =>
            /\ pubLog[i].topic \in AgentChannels(a) => InInbox(s, i)
            /\ \A b \in AgentIds \ {a} :
                  pubLog[i].topic = get_agent_task_channel(b) =>
                      ~InInbox(s, i) /\ ~Yielded(s, i)
            /\ \A item \in ItemsFor(s, i) : item.channel = pubLog[i].topic
            /\ (Consumed(s, i) /\ pubLog[i].topic \in AgentChannels(a)) => Yielded(s, i)

\* A session on the pattern of agent X has yielded a heartbeat of X and was
\* subscribed when a task of agent Y was published, which it did not get.
C8_Witness ==
    \E i, j \in PubIds, s \in SessionIds :
        /\ sessions[s].target = get_agent_pattern(AgentX)
        /\ pubLog[i].topic = get_agent_heartbeat_channel(AgentX)
        /\ Yielded(s, i)
        /\ pubLog[j].topic = get_agent_task_channel(AgentY)
        /\ pubLog[j].src = "publish"
        /\ s \in pubLog[j].subs
        /\ ~InInbox(s, j)

\* The items a generator yields for the messages it has read: the decoded
\* messages of its type, in the order read.
RECURSIVE DecodedItems(_, _)
DecodedItems(sess, n) ==
    IF n = 0 THEN <<>>
    ELSE LET msg == sess.inbox[n] IN
         IF msg.type = WantedType(sess) /\ msg.data # Garbage
         THEN Append(DecodedItems(sess, n - 1), Item(sess, msg))
         ELSE DecodedItems(sess, n - 1)

\* C9: a stream has yielded exactly the well-formed messages among those its
\* generator has read, in order, and reading a message never ends the
\* generator: after reading an undecodable text it keeps listening.
C9_MalformedSkipped ==
    /\ [](\A s \in SessionIds :
            sessions[s].received = DecodedItems(sessions[s], sessions[s].cursor))
    /\ [][\A s \in SessionIds :
            sessions'[s].cursor > sessions[s].cursor =>
                /\ sessions'[s].pc \in {"listening", "yielded"}
                /\ sessions'[s].inbox[sessions'[s].cursor].data = Garbage =>
                      sessions'[s].pc = "listening"]_vars

\* One undecodable text then one well-formed envelope on the same topic: both
\* read, exactly one item yielded.
C9_Witness ==
    \E s \in SessionIds :
        /\ sessions[s].cursor = 3
        /\ sessions[s].inbox[2].data = Garbage
        /\ sessions[s].inbox[3].data = dumps(HeartbeatEnv)
        /\ sessions[s].inbox[2].channel = sessions[s].inbox[3].channel
        /\ Len(sessions[s].received) = 1
        /\ sessions[s].received[1].data = HeartbeatEnv

\* C10: a stream that has ended, or whose consumer has stopped iterating, has
\* its session unsubscribed from the transport and its connection closed.
C10_NoLeakedSession ==
    \A s \in SessionIds :
        sessions[s].pc \in {"done", "abandoned"} =>
            ~sessions[s].subscribed /\ ~sessions[s].connOpen

\* C11: when disconnect() has returned, no session of the broker is still
\* subscribed at the transport.
C11_DisconnectClosesSessions ==
    last.op = "disconnect" => \A s \in SessionIds : ~sessions[s].subscribed

\* C12: disconnect() never raises; on a broker that never connected it leaves
\* the client unset, and a disconnect() on a broker whose latest call was a
\* disconnect() changes nothing at all.
C12_DisconnectIdempotent ==
    /\ [](last.op = "disconnect" =>
            /\ last.res = "ok"
            /\ redis_client \in {"None", "closed"}
            /\ lastConnect = "never" => redis_client = "None" /\ last.sends = 0)
    /\ [][Disconnect =>
            /\ redis_client # "open" => redis_client' = redis_client
            /\ last.op = "disconnect" => UNCHANGED vars]_vars

\* disconnect() has returned on a broker that never connected.
C12_Witness ==
    /\ last.op = "disconnect"
    /\ lastConnect = "never"
    /\ redis_client = "None"

\* The broker is connected: the latest connect() succeeded and no
\* disconnect() followed.
Connected == lastConnect = "ok" /\ redis_client = "open"

\* C13: get_message(k) returns the value set by set_message_expiry(k, v, ttl)
\* while the ttl has not elapsed and k was not deleted or overwritten, and
\* returns None when the ttl has elapsed.
C13_TtlStore ==
    [][\A k \in Keys :
          (Connected /\ GetMessage(k) /\ store[k].set) =>
              /\ last'.res = "ok"
              /\ last'.ret = IF now < store[k].expires THEN store[k].value ELSE PyNone]_vars

\* C14: on a connected broker get_message(k) of a key without an unexpired
\* value returns None and raises nothing; delete_message(k) returns true
\* exactly when k held an unexpired value, and leaves k without a value.
C14_MissingAndDelete ==
    [][\A k \in Keys :
          /\ (Connected /\ GetMessage(k) /\ ~Live(k)) =>
                last'.res = "ok" /\ last'.ret = PyNone
          /\ (Connected /\ DeleteMessage(k)) =>
                /\ last'.res = "ok"
                /\ last'.ret = Live(k)
                /\ ~store'[k].set]_vars

\* C15: a call of set_message_expiry, get_message or delete_message during
\* which the transport failed ends with the transport's error.
C15_StoreFailureSurfaced ==
    (last.op \in {"set_message_expiry", "get_message", "delete_message"} /\ last.fault)
        => last.res = "TransportError"

\* C16: a publish call makes at most one send; when the transport fails during
\* it the call ends with the transport's error and delivers nothing; and a
\* message reaches the transport only in the step of a publish call that
\* returns normally.
C16_FailedPublishNotRetried ==
    /\ [](last.op = "publish" =>
            /\ last.sends <= 1
            /\ last.fault => last.res = "TransportError")
    /\ [][\A t \in Topics, m \in Envelopes :
            (Publish(t, m) /\ last'.res # "ok") => UNCHANGED <<sessions, pubLog>>]_vars
    /\ [][(pubLog' # pubLog \/ \E s \in SessionIds : sessions'[s].inbox # sessions[s].inbox) =>
            \/ \E t \in Topics, m \in Envelopes : Publish(t, m) /\ last'.res = "ok"
            \/ \E s \in SessionIds : Start(s)]_vars

\* A publish failed in the transport while a session was subscribed, and
\* nothing but the subscribe confirmation has reached that session.
C16_Witness ==
    /\ last.op = "publish"
    /\ last.res = "TransportError"
    /\ pubLog = <<>>
    /\ \E s \in SessionIds :
          /\ sessions[s].subscribed
          /\ sessions[s].pc = "listening"
          /\ Len(sessions[s].inbox) = 1

\* A stalled consumer: session 1 is scheduled with no fairness at all, so it
\* may hold an item for ever and never ask for the next one; session 2 is
\* scheduled as in FairSpec.
StallSpec ==
    /\ Init /\ [][NextFair]_vars
    /\ WF_vars(Listen(2)) /\ WF_vars(Resume(2))

\* The consumer of session 1 holds an item and has not asked for the next
\* one while a message waits unread on its connection.
Stalled ==
    /\ sessions[1].pc = "yielded"
    /\ sessions[1].cursor < Len(sessions[1].inbox)

C18_FifoPerSubscriber ==
    \A s \in SessionIds :
        \A a, b \in 1..Len(sessions[s].received) :
            a < b => sessions[s].received[a].id < sessions[s].received[b].id

\* A session has yielded two messages published to one topic.
C18_Witness ==
    \E s \in SessionIds :
        /\ Len(sessions[s].received) = 2
        /\ pubLog[sessions[s].received[1].id].topic = pubLog[sessions[s].received[2].id].topic
        /\ pubLog[sessions[s].received[1].id].src = "publish"
        /\ pubLog[sessions[s].received[2].id].src = "publish"

\* How often x occurs in list.
Count(list, x) == Cardinality({n \in 1..Len(list) : list[n] = x})

\* C19: no subscriber id occurs more than once in a channel's list; a
\* subscribe(s, c) made when s is already subscribed to c changes nothing;
\* and after every subscribe(s, c) the list of c holds s exactly once.
C19_SubscribeIdempotent ==
    /\ [](\A c \in RegChannels, s \in SubscriberIds : Count(SubscribersOf(c), s) <= 1)
    /\ [][\A s \in SubscriberIds, c \in RegChannels :
            subscribe(s, c) =>
                /\ Count(SubscribersOf(c), s) = 1 => subscriptions' = subscriptions
                /\ Count(SubscribersOf(c)', s) = 1]_vars

\* A subscribe has returned and left a channel with exactly one subscriber.
C19_Witness ==
    /\ regLast.op = "subscribe"
    /\ \E c \in RegChannels : Len(SubscribersOf(c)) = 1

\* C20: every channel key of the index maps to a non-empty list; an
\* unsubscribe of the only subscriber of a channel removes the key; and the
\* read operations leave the index as it is.
C20_NoEmptyChannel ==
    /\ [](\A n \in 1..Len(subscriptions) : subscriptions[n].subscribers # <<>>)
    /\ [][\A s \in SubscriberIds, c \in RegChannels :
            (unsubscribe(s, c) /\ SubscribersOf(c) = <<s>>) => ~HasChannel(c)']_vars
    /\ [][(regLast'.op \in {"get_subscribers", "get_subscriptions", "is_subscribed"})
            => subscriptions' = subscriptions]_vars

\* get_subscribers of a channel without an entry has returned an empty list
\* while another channel has an entry, and the index has that one entry only.
C20_Witness ==
    /\ regLast.op = "get_subscribers"
    /\ regLast.ret = <<>>
    /\ Len(subscriptions) = 1

\* The list without every occurrence of x, the others in their order.
Without(list, x) ==
    LET other(e) == e # x IN SelectSeq(list, other)

\* C21: get_subscribers(c) returns the list of c; subscribe, unsubscribe and
\* clear_subscriber of s keep the other subscribers of every channel in their
\* order; and a subscribe of an id that is not in the list puts it last.
C21_SubscriptionOrder ==
    /\ [][\A c \in RegChannels : get_subscribers(c) => regLast'.ret = SubscribersOf(c)]_vars
    /\ [][\A s \in SubscriberIds, c \in RegChannels :
            (subscribe(s, c) \/ unsubscribe(s, c) \/ clear_subscriber(s)) =>
                \A d \in RegChannels :
                    Without(SubscribersOf(d)', s) = Without(SubscribersOf(d), s)]_vars
    /\ [][\A s \in SubscriberIds, c \in RegChannels :
            (subscribe(s, c) /\ ~Contains(SubscribersOf(c), s)) =>
                SubscribersOf(c)' = SubscribersOf(c) \o <<s>>]_vars
    /\ [][\A s \in SubscriberIds, c \in RegChannels :
            (unsubscribe(s, c) \/ clear_subscriber(s)) => ~Contains(SubscribersOf(c)', s)]_vars

\* get_subscribers has returned a channel's three subscribers in an order
\* that is not the order of their names.
C21_Witness ==
    /\ regLast.op = "get_subscribers"
    /\ regLast.ret = <<"s2", "s3", "s1">>

\* C22: clear_subscriber(s) leaves s in no list and no channel with an empty
\* list, and for every channel keeps the other subscribers, in their order;
\* a channel that still has subscribers keeps its key.
C22_ClearSubscriberFrame ==
    [][\A s \in SubscriberIds :
          clear_subscriber(s) =>
              /\ \A c \in RegChannels :
                    /\ ~Contains(SubscribersOf(c)', s)
                    /\ SubscribersOf(c)' = Without(SubscribersOf(c), s)
                    /\ HasChannel(c)' <=> (Without(SubscribersOf(c), s) # <<>>)
              /\ UNCHANGED brokerVars]_vars

\* clear_subscriber has returned, one channel was pruned and the other is
\* left with two subscribers.
C22_Witness ==
    /\ regLast.op = "clear_subscriber"
    /\ Len(subscriptions) = 1
    /\ Len(subscriptions[1].subscribers) = 2

\* No registry call is in progress.
Quiescent == \A p \in Callers : regCalls[p].pc \in {"idle", "done", "failed"}

\* C23: with callers interleaved between the statements of subscribe and
\* unsubscribe, no call fails, no id occurs twice in a list, no key with an
\* empty list remains when all calls have returned, and an id leaves a list
\* only in a step of an unsubscribe call for that id and channel.
C23_ConcurrentRegistrySafe ==
    /\ [](\A p \in Callers : regCalls[p].pc # "failed")
    /\ [](\A c \in RegChannels, s \in SubscriberIds : Count(SubscribersOf(c), s) <= 1)
    /\ [](Quiescent => \A n \in 1..Len(subscriptions) : subscriptions[n].subscribers # <<>>)
    /\ [][\A c \in RegChannels, s \in SubscriberIds :
            (Contains(SubscribersOf(c), s) /\ ~Contains(SubscribersOf(c)', s)) =>
                \E p \in Callers :
                    /\ regCalls'[p] # regCalls[p]
                    /\ regCalls[p].op = "unsubscribe"
                    /\ regCalls[p].sid = s
                    /\ regCalls[p].ch = c]_vars

\* C24: two applications of the naming functions return the same topic
\* exactly when they are the same function applied to the same id, and no
\* topic they return is one of the two fixed names.
C24_NamingInjective ==
    (applied[1].fn \in NamingFunctions /\ applied[2].fn \in NamingFunctions) =>
        /\ applied[1].out = applied[2].out
              <=> (applied[1].fn = applied[2].fn /\ applied[1].arg = applied[2].arg)
        /\ \A n \in 1..2 :
              applied[n].out \notin {get_broadcast_channel, get_coordination_channel}

\* The task channel of the id "a1:status" and the status channel of the id
\* "a1" have both been named.
C24_Witness ==
    /\ applied[1].fn = "get_agent_task_channel"
    /\ applied[1].arg = <<"a", "1", ":", "s", "t", "a", "t", "u", "s">>
    /\ applied[2].fn = "get_agent_status_channel"
    /\ applied[2].arg = AgentX
    /\ applied[1].out # applied[2].out

\* The applications of create_message in the history.
FactoryCalls == {n \in 1..2 : applied[n].fn = "create_message"}

\* C25: create_message raises a validation error exactly when message_type
\* is not a value of MessageType, and otherwise returns a payload whose
\* message_type is the given one.
C25_TypeValidated ==
    \A n \in FactoryCalls :
        IF applied[n].arg.message_type \in MessageType
        THEN /\ applied[n].out # ValidationError
             /\ applied[n].out.message_type = applied[n].arg.message_type
        ELSE applied[n].out = ValidationError

\* One application with an unknown type has failed and one with a known
\* type has returned a payload.
C25_Witness ==
    /\ FactoryCalls = {1, 2}
    /\ applied[1].out = ValidationError
    /\ applied[2].out # ValidationError
    /\ applied[2].out.message_type = "heartbeat"

\* C26: in every payload create_message returns, content.sender_agent_id is
\* the string form of the sender argument, content.recipients holds the
\* string forms of the recipient argument, and every other field of the
\* caller's content is kept.
C26_SenderAndRecipientsReal ==
    \A n \in FactoryCalls :
        applied[n].out # ValidationError =>
            /\ applied[n].out.content["sender_agent_id"] = Str(applied[n].arg.sender_agent_id)
            /\ applied[n].out.content["recipients"]
                  = RecipientStrings(applied[n].arg.recipient_agent_ids)
            /\ \A k \in DOMAIN applied[n].arg.content \ {"sender_agent_id", "recipients"} :
                  applied[n].out.content[k] = applied[n].arg.content[k]

\* C27: two applications that differ only in that one has no recipient list
\* and the other an empty one return different payloads.
C27_BroadcastDistinct ==
    (/\ FactoryCalls = {1, 2}
     /\ applied[1].arg.recipient_agent_ids = PyNone
     /\ applied[2].arg.recipient_agent_ids = List(<<>>)
     /\ [applied[1].arg EXCEPT !.recipient_agent_ids = 0]
           = [applied[2].arg EXCEPT !.recipient_agent_ids = 0]
     /\ applied[1].out # ValidationError)
        => applied[1].out # applied[2].out

\* C28: a message record starts with delivery_status pending, and the status
\* changes only from pending to delivered, failed or expired.
C28_DeliveryStatusLifecycle ==
    [][\A m \in MessageIds :
          delivery_status'[m] # delivery_status[m] =>
              IF delivery_status[m] = "none"
              THEN delivery_status'[m] = "pending"
              ELSE /\ delivery_status[m] = "pending"
                   /\ delivery_status'[m] \in {"delivered", "failed", "expired"}]_vars

\* C29: the finally block of a stream never makes a call twice and never
\* closes before it unsubscribes, and a stream that has ended after it opened
\* its session has made one unsubscribe followed by one close.
C29_CleanupOnceInOrder ==
    \A s \in SessionIds :
        /\ sessions[s].calls \in {<<>>, <<"unsubscribe">>, <<"unsubscribe", "close">>}
        /\ (sessions[s].pc = "done" /\ sessions[s].inbox # <<>>) =>
              sessions[s].calls = <<"unsubscribe", "close">>

\* C30: a stream that has ended stays ended and yields no further item,
\* whatever is published afterwards; and every stream yields only messages
\* that were published while its own session was subscribed.
C30_NotRestartable ==
    /\ [](\A s \in SessionIds : \A i \in PubIds :
             Yielded(s, i) => s \in pubLog[i].subs)
    /\ [][\A s \in SessionIds :
             sessions[s].pc = "done" =>
                /\ sessions'[s].pc = "done"
                /\ sessions'[s].received = sessions[s].received]_vars

\* Stream 1 yielded the first message and ended; a second message was then
\* published to the same topic, and stream 2, subscribed after the first
\* message, yielded the second only.
C30_Witness ==
    /\ Len(pubLog) = 2
    /\ pubLog[1].topic = sessions[1].target
    /\ pubLog[2].topic = sessions[1].target
    /\ sessions[1].pc = "done"
    /\ Yielded(1, 1) /\ ~Yielded(1, 2)
    /\ 1 \notin pubLog[2].subs
    /\ 2 \notin pubLog[1].subs
    /\ Yielded(2, 2) /\ ~Yielded(2, 1)

\* C31: a subscribe or psubscribe call made while the broker is disconnected
\* fails in the call itself: no stream object is handed out for a later first
\* request, and the failing stream opened no session and made no cleanup call.
C31_SubscribeFailsFast ==
    /\ [](\A s \in SessionIds :
             (sessions[s].pc = "done" /\ sessions[s].inbox = <<>> /\ sessions[s].calls = <<>>) =>
                 ~sessions[s].connOpen /\ ~sessions[s].subscribed)
    /\ [][\A s \in SessionIds :
             (sessions[s].pc = "new" /\ sessions'[s].pc = "created") => ClientTruthy]_vars

\* C32: every item of a psubscribe stream pairs a payload with the topic the
\* message was published to, that topic satisfies the stream's pattern, and a
\* message published to a topic outside the pattern is never yielded.
C32_PatternItems ==
    \A s \in SessionIds :
        sessions[s].kind = "psubscribe" =>
            /\ \A n \in 1..Len(sessions[s].received) :
                  LET item == sessions[s].received[n] IN
                  /\ item.channel = pubLog[item.id].topic
                  /\ item.data = loads(dumps(pubLog[item.id].env))
                  /\ GlobMatch(sessions[s].target, item.channel)
            /\ \A i \in PubIds :
                  ~GlobMatch(sessions[s].target, pubLog[i].topic) => ~Yielded(s, i)

\* A stream on the pattern of agent X has yielded the pair of the status topic
\* of X and a payload, and has not yielded a message for agent Y that was
\* published while it was subscribed.
C32_Witness ==
    \E s \in SessionIds :
        /\ sessions[s].target = get_agent_pattern(AgentX)
        /\ \E n \in 1..Len(sessions[s].received) :
              /\ sessions[s].received[n].channel = get_agent_status_channel(AgentX)
              /\ sessions[s].received[n].data = loads(dumps(HeartbeatEnv))
        /\ \E i \in PubIds :
              /\ pubLog[i].topic = get_agent_task_channel(AgentY)
              /\ s \in pubLog[i].subs
              /\ ~Yielded(s, i)

\* The calls of the TTL store.
StoreStep ==
    \/ \E k \in Keys, m \in {HeartbeatEnv, UuidEnv}, ttl \in TTLs : SetMessageExpiry(k, m, ttl)
    \/ \E k \in Keys : GetMessage(k)
    \/ \E k \in Keys : DeleteMessage(k)

\* C33: a call of the TTL store changes no session and delivers nothing; the
\* stored keys change only in set_message_expiry and delete_message calls,
\* never in a publish or in a step of a stream; and everything in a session's
\* connection is a subscribe confirmation or a publish of the log, so a stored
\* value is never delivered, also under a key spelled like the topic.
C33_StoreIndependent ==
    /\ [](\A s \in SessionIds : \A n \in 1..Len(sessions[s].inbox) :
             LET msg == sessions[s].inbox[n] IN
             \/ msg = Confirmation(sessions[s])
             \/ /\ msg.id \in PubIds
                /\ msg.channel = pubLog[msg.id].topic
                /\ msg.data = dumps(pubLog[msg.id].env))
    /\ [][StoreStep => UNCHANGED <<sessions, pubLog>>]_vars
    /\ [][store' # store => StoreStep]_vars

\* A value is stored and unexpired under the key spelled like the task topic
\* of agent X and a get_message of the key has returned it, while a stream
\* subscribed to that topic has read its whole connection, which holds the
\* subscribe confirmation only.
C33_Witness ==
    \E k \in Keys, s \in SessionIds :
        /\ k = get_agent_task_channel(AgentX)
        /\ Live(k)
        /\ sessions[s].kind = "subscribe"
        /\ sessions[s].target = k
        /\ sessions[s].subscribed
        /\ sessions[s].inbox = <<Confirmation(sessions[s])>>
        /\ sessions[s].cursor = 1
        /\ last.op = "get_message"
        /\ last.ret = loads(dumps(store[k].value))

\* What the three reads of the registry would return in the current state.
InSubscriptions(s, c) == ENABLED (get_subscriptions(s) /\ Contains(regLast'.ret, c))
IsSubscribed(s, c) == ENABLED (is_subscribed(s, c) /\ regLast'.ret)
InSubscribers(s, c) == ENABLED (get_subscribers(c) /\ Contains(regLast'.ret, s))

\* C34: after any sequence of subscribe, unsubscribe and clear_subscriber, for
\* every subscriber s and channel c: c is in get_subscriptions(s) exactly when
\* is_subscribed(s, c) is true, exactly when s is in get_subscribers(c).
C34_ViewsAgree ==
    \A s \in SubscriberIds, c \in RegChannels :
        /\ InSubscriptions(s, c) <=> IsSubscribed(s, c)
        /\ IsSubscribed(s, c) <=> InSubscribers(s, c)

\* After a clear_subscriber, one subscriber is on both channels and another
\* on the first only.
C34_Witness ==
    /\ regLast.op = "clear_subscriber"
    /\ \E s, t \in SubscriberIds :
          /\ s # t
          /\ \A c \in RegChannels : InSubscriptions(s, c)
          /\ InSubscribers(t, get_agent_task_channel(AgentX))
          /\ ~IsSubscribed(t, get_agent_status_channel(AgentX))

\* C35: the Router's function for coordination requests returns the topic
\* that get_coordination_channel() returns, whatever id it is given.
C35_CoordinationRoute ==
    \A n \in 1..2 :
        applied[n].fn = "route_coordination_request" =>
            applied[n].out = get_coordination_channel

\* C36: a registry operation changes nothing of the broker (no session, no
\* delivery, no stored key); a broker operation leaves the registry's index
\* as it is; and who receives a publish is decided by the sessions subscribed
\* at the transport alone: every such session on the topic gets the message,
\* no other does, and the reply counts them, whatever the registry holds.
C36_RegistryBrokerDecoupled ==
    /\ [](\A i \in PubIds, s \in SessionIds :
             /\ InInbox(s, i) <=> (s \in pubLog[i].subs /\ Matches(sessions[s], pubLog[i].topic))
             /\ pubLog[i].ret = Cardinality(LiveMatching(i)))
    /\ [][RegistryStep => UNCHANGED brokerVars]_vars
    /\ [][BrokerStep => UNCHANGED subscriptions]_vars

\* The stream has yielded a published message and has ended, and the registry
\* lists two subscribers for the topic while no session is subscribed to it.
C36_Witness ==
    /\ Len(pubLog) = 1
    /\ pubLog[1].ret = 1
    /\ Yielded(1, 1)
    /\ Len(SubscribersOf(get_agent_task_channel(AgentX))) = 2
    /\ sessions[1].pc = "done"
    /\ ~sessions[1].subscribed

\* C37: a list returned by get_subscribers is a snapshot: a later write of the
\* registry leaves its elements as they are, a caller's change of it leaves
\* the registry's index as it is, and so no channel ever has an id twice or
\* an empty list.
C37_ReturnedListIsSnapshot ==
    /\ [](\A n \in 1..Len(subscriptions) :
             /\ subscriptions[n].subscribers # <<>>
             /\ \A s \in SubscriberIds : Count(subscriptions[n].subscribers, s) <= 1)
    /\ [][(held.set /\ RegistryWrite) => HeldList' = HeldList]_vars
    /\ [][ListStep => subscriptions' = subscriptions]_vars

\* C38: an entry that returns leaves the broker connected; the context is
\* left by a disconnect() only; and after a connect() that failed on entry no
\* client is left open.
C38_ScopedConnection ==
    /\ []((last.op = "connect" /\ last.res = "ok") => redis_client = "open")
    /\ [](lastConnect = "failed" => redis_client # "open")
    /\ [][(InBody /\ ~InBody') => last'.op = "disconnect"]_vars

\* C39: a broadcast ends without an error, whichever sends fail; after it no
\* connection whose send failed is registered and every connection whose send
\* succeeded is registered once; and the endpoint's disconnect of a connection
\* that was removed before raises nothing.
C39_BroadcastCleansUp ==
    /\ [](wsLast.op = "endpoint_error" => wsLast.res = "ok")
    /\ [][\A F \in SUBSET Connections :
             Broadcast(F) =>
                /\ wsLast'.res = "ok"
                /\ \A w \in Connections :
                      Count(active_connections', w) =
                         IF w \in F THEN 0 ELSE Count(active_connections, w)]_vars

\* What has_provider would return in the current state.
HasProvider(id) == ENABLED (has_provider(id) /\ provLast'.ret)

\* C40: the provider table and the config table always have the same keys;
\* registering an id that is registered raises ValueError and changes neither
\* table; unregister_provider returns true exactly when the id was registered
\* and afterwards has_provider of it is false; list_providers_by_type finds a
\* configuration for every provider.
C40_TablesInStep ==
    /\ [](DOMAIN providers = DOMAIN configs)
    /\ []((provLast.op = "unregister_provider") => ~HasProvider(provLast.id))
    /\ [](provLast.op = "list_providers_by_type" => provLast.res = "ok")
    /\ [][\A id \in ProviderIds :
             /\ (\E p \in LLMProviders, t \in ProviderTypes :
                    register_provider(id, p, [provider_type |-> t]) /\ HasProvider(id)) =>
                   /\ provLast'.res = "ValueError"
                   /\ UNCHANGED <<providers, configs>>
             /\ unregister_provider(id) => provLast'.ret = HasProvider(id)]_vars

\* An unregister_provider of the registered id p1 has returned true; p1 is
\* no longer registered and p2, with its configuration, still is.
C40_Witness ==
    /\ provLast.op = "unregister_provider"
    /\ provLast.ret
    /\ provLast.id = "p1"
    /\ HasProvider("p2")
    /\ ~HasProvider("p1")
    /\ configs["p2"].provider_type = "anthropic"

====
